--------------------------- MODULE DnsCacheProofs ---------------------------
(***************************************************************************)
(* Theorems about DnsCache, proved for every set of keys and tasks and     *)
(* every value of the options.  IInv of DnsCache is the inductive          *)
(* invariant.  The single-flight part (Flight) needs nothing but itself;   *)
(* the rest goes in two layers: what each operator on the store leaves in  *)
(* it (HitFacts to PickFacts), what the actions that write the store do to *)
(* it (BumpActs to GetActs), and from these one lemma per conjunct         *)
(* (StoreStep to TtlStep).                                                 *)
(***************************************************************************)
EXTENDS DnsCache, TLAPS

\* The key an idle task is set to is a key.
LEMMA AnyKeyOK == AnyKey \in Keys
  BY KeyAssumption DEF AnyKey

\* Generation 0 is within the bound.
LEMMA ZeroGen == 0 \in Gens
  BY NumberAssumption DEF Gens

\* Single-flight is preserved by every step: the inflight map names the
\* leaders, and a follower's channel is the leader of its key (handle).
LEMMA Flight ==
  ASSUME FlightOK, SingleFlight, NoOrphan, gen \in Gens, [Next]_vars
  PROVE  FlightOK' /\ SingleFlight' /\ NoOrphan'
<1> USE KeyAssumption, TaskAssumption, AnyKeyOK, ZeroGen DEF FlightOK, SingleFlight, NoOrphan, Tasks, LeaderPC

<1>1. ASSUME NEW c \in Clients, NEW k \in Asked, GetValid(c, k)
      PROVE  (FlightOK /\ SingleFlight /\ NoOrphan)'
  <2>1. FlightOK'
    BY <1>1 DEF GetValid, locals
  <2>2. SingleFlight'
    BY <1>1 DEF GetValid, locals
  <2>3. NoOrphan'
    BY <1>1 DEF GetValid, locals
  <2> QED  BY <2>1, <2>2, <2>3
<1>2. ASSUME NEW c \in Clients, NEW k \in Asked, GetOther(c, k)
      PROVE  (FlightOK /\ SingleFlight /\ NoOrphan)'
  <2>1. FlightOK'
    BY <1>2 DEF GetOther, PC, ClientPC
  <2>2. SingleFlight'
    BY <1>2 DEF GetOther, PC
  <2>3. NoOrphan'
    BY <1>2 DEF GetOther, PC
  <2> QED  BY <2>1, <2>2, <2>3
<1>3. ASSUME NEW c \in Clients, MarkLost(c)
      PROVE  (FlightOK /\ SingleFlight /\ NoOrphan)'
  <2>1. FlightOK'
    BY <1>3 DEF MarkLost, Leave, PC, ClientPC
  <2>2. SingleFlight'
    BY <1>3 DEF MarkLost, Leave, PC
  <2>3. NoOrphan'
    BY <1>3 DEF MarkLost, Leave, PC
  <2> QED  BY <2>1, <2>2, <2>3
<1>4. ASSUME NEW c \in Clients, MarkWon(c)
      PROVE  (FlightOK /\ SingleFlight /\ NoOrphan)'
  <2>1. FlightOK'
    BY <1>4 DEF MarkWon, PC, ClientPC
  <2>2. SingleFlight'
    BY <1>4 DEF MarkWon, PC
  <2>3. NoOrphan'
    BY <1>4 DEF MarkWon, PC
  <2> QED  BY <2>1, <2>2, <2>3
<1>5. ASSUME NEW c \in Clients, BumpOwn(c)
      PROVE  (FlightOK /\ SingleFlight /\ NoOrphan)'
  <2>1. FlightOK'
    BY <1>5 DEF BumpOwn, SyncUntil, PC, ClientPC
  <2>2. SingleFlight'
    BY <1>5 DEF BumpOwn, SyncUntil, PC
  <2>3. NoOrphan'
    BY <1>5 DEF BumpOwn, SyncUntil, PC
  <2> QED  BY <2>1, <2>2, <2>3
<1>6. ASSUME NEW c \in Clients, MarkSibling(c)
      PROVE  (FlightOK /\ SingleFlight /\ NoOrphan)'
  <2>1. FlightOK'
    BY <1>6 DEF MarkSibling, PC, ClientPC
  <2>2. SingleFlight'
    BY <1>6 DEF MarkSibling, PC
  <2>3. NoOrphan'
    BY <1>6 DEF MarkSibling, PC
  <2> QED  BY <2>1, <2>2, <2>3
<1>7. ASSUME NEW c \in Clients, BumpSibling(c)
      PROVE  (FlightOK /\ SingleFlight /\ NoOrphan)'
  <2>1. FlightOK'
    BY <1>7 DEF BumpSibling, PC, ClientPC
  <2>2. SingleFlight'
    BY <1>7 DEF BumpSibling, PC
  <2>3. NoOrphan'
    BY <1>7 DEF BumpSibling, PC
  <2> QED  BY <2>1, <2>2, <2>3
<1>8. ASSUME NEW c \in Clients, NEW r \in Refreshers, SpawnRefresh(c, r)
      PROVE  (FlightOK /\ SingleFlight /\ NoOrphan)'
  <2>1. FlightOK'
    BY <1>8 DEF SpawnRefresh, Handed, PC, ClientPC
  <2>2. SingleFlight'
    BY <1>8 DEF SpawnRefresh, Handed, PC
  <2>3. NoOrphan'
    BY <1>8 DEF SpawnRefresh, Handed, PC
  <2> QED  BY <2>1, <2>2, <2>3
<1>9. ASSUME NEW r \in Refreshers, SendAccepted(r)
      PROVE  (FlightOK /\ SingleFlight /\ NoOrphan)'
  <2>1. FlightOK'
    BY <1>9 DEF SendAccepted, PC, ClientPC
  <2>2. SingleFlight'
    BY <1>9 DEF SendAccepted, PC
  <2>3. NoOrphan'
    BY <1>9 DEF SendAccepted, PC
  <2> QED  BY <2>1, <2>2, <2>3
<1>10. ASSUME NEW r \in Refreshers, SendRefused(r)
      PROVE  (FlightOK /\ SingleFlight /\ NoOrphan)'
  <2>1. FlightOK'
    BY <1>10 DEF SendRefused, PC, ClientPC
  <2>2. SingleFlight'
    BY <1>10 DEF SendRefused, PC
  <2>3. NoOrphan'
    BY <1>10 DEF SendRefused, PC
  <2> QED  BY <2>1, <2>2, <2>3
<1>11. ASSUME NEW r \in Refreshers, NEW k \in Keys, DropGuard(r, k)
      PROVE  (FlightOK /\ SingleFlight /\ NoOrphan)'
  <2>1. FlightOK'
    BY <1>11 DEF DropGuard, PC, ClientPC
  <2>2. SingleFlight'
    BY <1>11 DEF DropGuard, PC
  <2>3. NoOrphan'
    BY <1>11 DEF DropGuard, PC
  <2> QED  BY <2>1, <2>2, <2>3
<1>12. ASSUME NEW t \in Tasks, BecomeLeader(t)
      PROVE  (FlightOK /\ SingleFlight /\ NoOrphan)'
  <2>1. FlightOK'
    BY <1>12 DEF BecomeLeader, Leaderless, PC, ClientPC
  <2>2. SingleFlight'
    BY <1>12 DEF BecomeLeader, Leaderless, PC
  <2>3. NoOrphan'
    BY <1>12 DEF BecomeLeader, Leaderless, PC
  <2> QED  BY <2>1, <2>2, <2>3
<1>13. ASSUME NEW t \in Tasks, Subscribe(t)
      PROVE  (FlightOK /\ SingleFlight /\ NoOrphan)'
  <2>1. FlightOK'
    BY <1>13 DEF Subscribe, Leaderless, PC, ClientPC
  <2>2. SingleFlight'
    BY <1>13 DEF Subscribe, Leaderless, PC
  <2>3. NoOrphan'
    BY <1>13 DEF Subscribe, Leaderless, PC
  <2> QED  BY <2>1, <2>2, <2>3
<1>14. ASSUME NEW t \in Tasks, NEW ttl \in TTLs, NEW next \in {"store", "storeSib", "finish"}, UpstreamOk(t, ttl, next)
      PROVE  (FlightOK /\ SingleFlight /\ NoOrphan)'
  <2>1. FlightOK'
    BY <1>14 DEF UpstreamOk, PC, ClientPC
  <2>2. SingleFlight'
    BY <1>14 DEF UpstreamOk, PC
  <2>3. NoOrphan'
    BY <1>14 DEF UpstreamOk, PC
  <2> QED  BY <2>1, <2>2, <2>3
<1>15. ASSUME NEW t \in Tasks, UpstreamFailed(t)
      PROVE  (FlightOK /\ SingleFlight /\ NoOrphan)'
  <2>1. FlightOK'
    BY <1>15 DEF UpstreamFailed, PC, ClientPC, Broadcast, Followers
  <2>2. SingleFlight'
    BY <1>15 DEF UpstreamFailed, PC, Broadcast, Followers
  <2>3. NoOrphan'
    BY <1>15 DEF UpstreamFailed, PC, Broadcast, Followers
  <2> QED  BY <2>1, <2>2, <2>3
<1>16. ASSUME NEW t \in Tasks, NEW next \in {"storeSib", "finish"}, StoreOwn(t, next)
      PROVE  (FlightOK /\ SingleFlight /\ NoOrphan)'
  <2>1. FlightOK'
    BY <1>16 DEF StoreOwn, PC, ClientPC
  <2>2. SingleFlight'
    BY <1>16 DEF StoreOwn, PC
  <2>3. NoOrphan'
    BY <1>16 DEF StoreOwn, PC
  <2> QED  BY <2>1, <2>2, <2>3
<1>17. ASSUME NEW t \in Tasks, StoreSibling(t)
      PROVE  (FlightOK /\ SingleFlight /\ NoOrphan)'
  <2>1. FlightOK'
    BY <1>17 DEF StoreSibling, PC, ClientPC
  <2>2. SingleFlight'
    BY <1>17 DEF StoreSibling, PC
  <2>3. NoOrphan'
    BY <1>17 DEF StoreSibling, PC
  <2> QED  BY <2>1, <2>2, <2>3
<1>18. ASSUME NEW t \in Tasks, Finish(t)
      PROVE  (FlightOK /\ SingleFlight /\ NoOrphan)'
  <2>1. FlightOK'
    BY <1>18 DEF Finish, PC, ClientPC, Broadcast, Followers
  <2>2. SingleFlight'
    BY <1>18 DEF Finish, PC, Broadcast, Followers
  <2>3. NoOrphan'
    BY <1>18 DEF Finish, PC, Broadcast, Followers
  <2> QED  BY <2>1, <2>2, <2>3
<1>19. ASSUME NEW t \in Tasks, Receive(t)
      PROVE  (FlightOK /\ SingleFlight /\ NoOrphan)'
  <2>1. FlightOK'
    BY <1>19 DEF Receive, PC, ClientPC, Leave
  <2>2. SingleFlight'
    BY <1>19 DEF Receive, PC, Leave
  <2>3. NoOrphan'
    BY <1>19 DEF Receive, PC, Leave
  <2> QED  BY <2>1, <2>2, <2>3
<1>20. ASSUME ScanStart
      PROVE  (FlightOK /\ SingleFlight /\ NoOrphan)'
  <2>1. FlightOK'
    BY <1>20 DEF ScanStart, locals
  <2>2. SingleFlight'
    BY <1>20 DEF ScanStart, locals
  <2>3. NoOrphan'
    BY <1>20 DEF ScanStart, locals
  <2> QED  BY <2>1, <2>2, <2>3
<1>21. ASSUME NEW k \in Keys, ScanVisit(k)
      PROVE  (FlightOK /\ SingleFlight /\ NoOrphan)'
  <2>1. FlightOK'
    BY <1>21 DEF ScanVisit, locals
  <2>2. SingleFlight'
    BY <1>21 DEF ScanVisit, locals
  <2>3. NoOrphan'
    BY <1>21 DEF ScanVisit, locals
  <2> QED  BY <2>1, <2>2, <2>3
<1>22. ASSUME NEW k \in Keys, NEW r \in Refreshers, Dispatch(k, r)
      PROVE  (FlightOK /\ SingleFlight /\ NoOrphan)'
  <2>1. FlightOK'
    BY <1>22 DEF Dispatch, PC, ClientPC
  <2>2. SingleFlight'
    BY <1>22 DEF Dispatch, PC
  <2>3. NoOrphan'
    BY <1>22 DEF Dispatch, PC
  <2> QED  BY <2>1, <2>2, <2>3
<1>23. ASSUME ScanEnd
      PROVE  (FlightOK /\ SingleFlight /\ NoOrphan)'
  <2>1. FlightOK'
    BY <1>23 DEF ScanEnd, locals
  <2>2. SingleFlight'
    BY <1>23 DEF ScanEnd, locals
  <2>3. NoOrphan'
    BY <1>23 DEF ScanEnd, locals
  <2> QED  BY <2>1, <2>2, <2>3
<1>24. ASSUME NEW k \in Keys, Purge(k)
      PROVE  (FlightOK /\ SingleFlight /\ NoOrphan)'
  <2>1. FlightOK'
    BY <1>24 DEF Purge, locals
  <2>2. SingleFlight'
    BY <1>24 DEF Purge, locals
  <2>3. NoOrphan'
    BY <1>24 DEF Purge, locals
  <2> QED  BY <2>1, <2>2, <2>3
<1>25. ASSUME NEW k \in Keys, Clear(k)
      PROVE  (FlightOK /\ SingleFlight /\ NoOrphan)'
  <2>1. FlightOK'
    BY <1>25 DEF Clear, locals
  <2>2. SingleFlight'
    BY <1>25 DEF Clear, locals
  <2>3. NoOrphan'
    BY <1>25 DEF Clear, locals
  <2> QED  BY <2>1, <2>2, <2>3
<1>26. ASSUME Reload
      PROVE  (FlightOK /\ SingleFlight /\ NoOrphan)'
  <2>1. FlightOK'
    BY <1>26 DEF Reload, locals
  <2>2. SingleFlight'
    BY <1>26 DEF Reload, locals
  <2>3. NoOrphan'
    BY <1>26 DEF Reload, locals
  <2> QED  BY <2>1, <2>2, <2>3
<1>27. ASSUME Tick
      PROVE  (FlightOK /\ SingleFlight /\ NoOrphan)'
  <2>1. FlightOK'
    BY <1>27 DEF Tick, locals
  <2>2. SingleFlight'
    BY <1>27 DEF Tick, locals
  <2>3. NoOrphan'
    BY <1>27 DEF Tick, locals
  <2> QED  BY <2>1, <2>2, <2>3
<1>28. CASE UNCHANGED vars
  BY <1>28 DEF vars
<1> HIDE DEF FlightOK, SingleFlight, NoOrphan, Tasks, LeaderPC
<1> QED
  BY <1>1, <1>2, <1>3, <1>4, <1>5, <1>6, <1>7, <1>8, <1>9, <1>10, <1>11, <1>12, <1>13, <1>14, <1>15, <1>16, <1>17, <1>18, <1>19, <1>20, <1>21, <1>22, <1>23, <1>24, <1>25, <1>26, <1>27, <1>28 DEF Next, Lookup, StaleStep, RefreshStep, FlightStep, Upstream, ScanStep

(* Facts about the store operators: what each leaves in the store.         *)

\* A store of the right type.
Typed(new) == new \in [Keys -> Entry \cup {NoEntry}]

\* Whatever is in the new store had the same lifetime in the old one.
KeepsLifetimes(new) ==
  \A j \in Keys : new[j] # NoEntry =>
    Has(j) /\ new[j].exp = cache[j].exp /\ new[j].until = cache[j].until

\* Outside k nothing is marked that was not.
MarksOnly(new, k) ==
  \A j \in Keys \ {k} : (new[j] # NoEntry /\ new[j].pf) => Has(j) /\ cache[j].pf

\* Nothing is marked that was not.
NoNewMark(new) ==
  \A j \in Keys : (new[j] # NoEntry /\ new[j].pf) => Has(j) /\ cache[j].pf

\* Each lifetime is the data's own, an old one, or ends by t.
LifetimesBy(new, t) ==
  \A j \in Keys : new[j] # NoEntry =>
    \/ new[j].until = new[j].exp
    \/ new[j].until <= t
    \/ Has(j) /\ new[j].exp = cache[j].exp /\ new[j].until = cache[j].until

\* Counting a hit changes no lifetime and sets no marker (DnsCache::get).
LEMMA HitFacts ==
  ASSUME StoreOK, NEW k \in Keys, Has(k), NEW new, new = [cache EXCEPT ![k] = Hit(@)]
  PROVE  Typed(new) /\ KeepsLifetimes(new) /\ NoNewMark(new)
<1>1. cache[k] \in Entry
  BY DEF StoreOK, Has
<1>2. /\ Hit(cache[k]) \in Entry
      /\ Hit(cache[k]).exp = cache[k].exp
      /\ Hit(cache[k]).until = cache[k].until
      /\ Hit(cache[k]).pf = cache[k].pf
  BY <1>1, NumberAssumption DEF Hit, Capped, Entry
<1> QED
  BY <1>2 DEF StoreOK, Has, Typed, KeepsLifetimes, NoNewMark

\* mark_prefetching changes no lifetime and marks no key but its own.
LEMMA MarkFacts ==
  ASSUME StoreOK, NEW k \in Keys
  PROVE  Typed(Mark(k)) /\ KeepsLifetimes(Mark(k)) /\ MarksOnly(Mark(k), k)
<1>1. CASE ~Has(k)
  BY <1>1 DEF StoreOK, Typed, KeepsLifetimes, MarksOnly, Mark, Has
<1>2. CASE Has(k)
  <2>1. cache[k] \in Entry
    BY <1>2 DEF StoreOK, Has
  <2>2. Mark(k) = [cache EXCEPT ![k] = [cache[k] EXCEPT !.pf = TRUE]]
    BY <1>2 DEF Mark
  <2>3. /\ [cache[k] EXCEPT !.pf = TRUE] \in Entry
        /\ [cache[k] EXCEPT !.pf = TRUE].exp = cache[k].exp
        /\ [cache[k] EXCEPT !.pf = TRUE].until = cache[k].until
    BY <2>1 DEF Entry
  <2> QED
    BY <1>2, <2>2, <2>3 DEF StoreOK, Has, Typed, KeepsLifetimes, MarksOnly
<1> QED  BY <1>1, <1>2

\* Dropping a PrefetchGuard leaves no marker on its key and adds none.
LEMMA UnmarkFacts ==
  ASSUME StoreOK, NEW k \in Keys
  PROVE  /\ Typed(Unmark(k)) /\ KeepsLifetimes(Unmark(k)) /\ NoNewMark(Unmark(k))
         /\ Unmark(k)[k] # NoEntry => ~Unmark(k)[k].pf
<1>1. CASE ~Has(k)
  BY <1>1 DEF StoreOK, Typed, KeepsLifetimes, NoNewMark, Unmark, Has
<1>2. CASE Has(k)
  <2>1. cache[k] \in Entry
    BY <1>2 DEF StoreOK, Has
  <2>2. Unmark(k) = [cache EXCEPT ![k] = [cache[k] EXCEPT !.pf = FALSE]]
    BY <1>2 DEF Unmark
  <2>3. /\ [cache[k] EXCEPT !.pf = FALSE] \in Entry
        /\ [cache[k] EXCEPT !.pf = FALSE].exp = cache[k].exp
        /\ [cache[k] EXCEPT !.pf = FALSE].until = cache[k].until
        /\ [cache[k] EXCEPT !.pf = FALSE].pf = FALSE
    BY <2>1 DEF Entry
  <2> QED
    BY <1>2, <2>2, <2>3 DEF StoreOK, Has, Typed, KeepsLifetimes, NoNewMark
<1> QED  BY <1>1, <1>2

\* set_valid_until_for_prefetch leaves each lifetime as it was or ending by
\* the granted time, and sets no marker.
LEMMA BumpFacts ==
  ASSUME StoreOK, NEW k \in Keys, NEW t \in Nat
  PROVE  Typed(Bump(k, t)) /\ LifetimesBy(Bump(k, t), t) /\ NoNewMark(Bump(k, t))
<1>1. CASE ~(Has(k) /\ cache[k].until < t)
  BY <1>1 DEF StoreOK, Typed, LifetimesBy, NoNewMark, Bump, Has
<1>2. CASE Has(k) /\ cache[k].until < t
  <2>1. cache[k] \in Entry
    BY <1>2 DEF StoreOK, Has
  <2>2. Bump(k, t) = [cache EXCEPT ![k] = [cache[k] EXCEPT !.until = t]]
    BY <1>2 DEF Bump
  <2>3. /\ [cache[k] EXCEPT !.until = t] \in Entry
        /\ [cache[k] EXCEPT !.until = t].until = t
        /\ [cache[k] EXCEPT !.until = t].pf = cache[k].pf
    BY <2>1 DEF Entry
  <2> QED
    BY <1>2, <2>2, <2>3 DEF StoreOK, Has, Typed, LifetimesBy, NoNewMark
<1> QED  BY <1>1, <1>2

\* insert_full_response writes an entry that lives as long as its data and
\* is not marked; eviction only removes.
LEMMA InsertFacts ==
  ASSUME StoreOK, NEW k \in Keys, NEW ttl \in Nat, NEW bg \in BOOLEAN, Insert(k, ttl, bg)
  PROVE  /\ Typed(cache') /\ LifetimesBy(cache', 0) /\ NoNewMark(cache')
         /\ accessed' \subseteq Keys
<1> DEFINE e == InsertEntry(k, ttl, bg)
<1>1. Has(k) => cache[k] \in Entry
  BY DEF StoreOK, Has
<1>2. e \in Entry /\ e.until = e.exp /\ e.pf = FALSE
  BY <1>1, NumberAssumption DEF StoreOK, InsertEntry, Entry, Capped
<1>3. PICK victim \in Keys :
        cache' = [j \in Keys |-> IF j = k THEN e ELSE IF j = victim THEN NoEntry ELSE cache[j]]
  BY DEF Insert
<1> HIDE DEF e
<1>4. accessed' \subseteq Keys
  BY DEF Insert, StoreOK
<1> QED
  BY <1>2, <1>3, <1>4 DEF StoreOK, Has, Typed, LifetimesBy, NoNewMark

\* Removing an entry (purge_dead_records, clear) changes no other.
LEMMA DropFacts ==
  ASSUME StoreOK, NEW k \in Keys, NEW new, new = [cache EXCEPT ![k] = NoEntry]
  PROVE  Typed(new) /\ KeepsLifetimes(new) /\ NoNewMark(new)
BY DEF StoreOK, Has, Typed, KeepsLifetimes, NoNewMark

\* A pick of get_expired marks its key only, changes no lifetime, and takes
\* a hit from a counter that has two.
LEMMA PickFacts ==
  ASSUME StoreOK, NEW k \in Keys, Expiring(k), NEW new,
         new = [cache EXCEPT ![k].pf = TRUE, ![k].hits = @ - 1]
  PROVE  Typed(new) /\ KeepsLifetimes(new) /\ MarksOnly(new, k)
<1>1. cache[k] \in Entry /\ cache[k].hits >= 2
  BY DEF StoreOK, Has, Expiring
<1> DEFINE h == cache[k].hits - 1
           e == [cache[k] EXCEPT !.pf = TRUE, !.hits = h]
<1>a. h \in 0 .. HitCap
  BY <1>1, NumberAssumption DEF Entry
<1> HIDE DEF h
<1>2. e \in Entry /\ e.exp = cache[k].exp /\ e.until = cache[k].until
  BY <1>1, <1>a DEF Entry
<1> USE DEF h
<1>3. new = [cache EXCEPT ![k] = e]
  BY <1>1 DEF StoreOK, Entry
<1> HIDE DEF e
<1> QED
  BY <1>1, <1>2, <1>3 DEF StoreOK, Has, Typed, KeepsLifetimes, MarksOnly, Expiring

----------------------------------------------------------------------------
(* What the actions that write the store do to it.                         *)

\* The two bumps of the stale-hit path keep the store typed and its
\* lifetimes bounded.
LEMMA BumpActs ==
  ASSUME StoreOK, FlightOK, HandOK, SyncBounded, NEW c \in Clients,
         BumpOwn(c) \/ BumpSibling(c)
  PROVE  Typed(cache') /\ LifetimesBy(cache', now + ReplyTtl) /\ NoNewMark(cache')
<1>0. c \in Tasks /\ key[c] \in Keys /\ Sibling[key[c]] \in Keys /\ sync[c] \in Nat
  BY KeyAssumption DEF FlightOK, HandOK, Tasks
<1>1. CASE BumpOwn(c)
  <2>1. now + ReplyTtl \in Nat
    BY NumberAssumption DEF StoreOK
  <2> QED  BY <1>0, <1>1, <2>1, BumpFacts DEF BumpOwn, SyncUntil
<1>2. CASE BumpSibling(c)
  <2>1. cache' = Bump(Sibling[key[c]], sync[c])
    BY <1>2 DEF BumpSibling
  <2>2. Typed(cache') /\ LifetimesBy(cache', sync[c]) /\ NoNewMark(cache')
    BY <1>0, <2>1, BumpFacts
  <2>3. sync[c] <= now + ReplyTtl
    BY <1>0 DEF SyncBounded
  <2>4. \A j \in Keys : cache'[j] # NoEntry => cache'[j].until \in Nat
    BY <2>2 DEF Typed, Entry
  <2>5. LifetimesBy(cache', now + ReplyTtl)
    BY <1>0, <2>2, <2>3, <2>4, NumberAssumption DEF LifetimesBy, StoreOK
  <2> QED  BY <2>2, <2>5
<1> QED  BY <1>1, <1>2

\* The two inserts of a leader keep the store typed and its lifetimes
\* bounded.
LEMMA StoreActs ==
  ASSUME StoreOK, FlightOK, HandOK, NEW t \in Tasks,
         (\E next \in {"storeSib", "finish"} : StoreOwn(t, next)) \/ StoreSibling(t)
  PROVE  /\ Typed(cache') /\ LifetimesBy(cache', 0) /\ NoNewMark(cache')
         /\ accessed' \subseteq Keys
<1>1. /\ key[t] \in Keys /\ Sibling[key[t]] \in Keys /\ res[t] \in Nat
      /\ (t \in Refreshers) \in BOOLEAN
  BY KeyAssumption DEF FlightOK, HandOK
<1>2. Insert(key[t], res[t], t \in Refreshers) \/ Insert(Sibling[key[t]], res[t], t \in Refreshers)
  BY DEF StoreOwn, StoreSibling
<1> QED  BY <1>1, <1>2, InsertFacts

\* The steps that set or clear a marker: each marks at most the key it then
\* holds, and clears only the key whose guard it gives up.
LEMMA MarkActs ==
  ASSUME StoreOK, FlightOK, HandOK, LoopOK
  PROVE  /\ \A c \in Clients : MarkWon(c) =>
              /\ Typed(cache') /\ KeepsLifetimes(cache') /\ MarksOnly(cache', key[c])
              /\ key[c] \in guards'[c]
         /\ \A c \in Clients : MarkSibling(c) =>
              /\ Typed(cache') /\ KeepsLifetimes(cache')
              /\ MarksOnly(cache', Sibling[key[c]])
              /\ NoNewMark(cache') \/ Sibling[key[c]] \in guards'[c]
              /\ guards[c] \subseteq guards'[c]
              /\ guards'[c] \subseteq Keys
         /\ \A k \in Keys : ScanVisit(k) =>
              /\ Typed(cache') /\ KeepsLifetimes(cache') /\ MarksOnly(cache', k)
              /\ NoNewMark(cache') \/ k \in picked'
<1>1. ASSUME NEW c \in Clients, MarkWon(c)
      PROVE  /\ Typed(cache') /\ KeepsLifetimes(cache') /\ MarksOnly(cache', key[c])
             /\ key[c] \in guards'[c]
  BY <1>1, MarkFacts DEF MarkWon, FlightOK, HandOK, Tasks
<1>2. ASSUME NEW c \in Clients, MarkSibling(c)
      PROVE  /\ Typed(cache') /\ KeepsLifetimes(cache')
             /\ MarksOnly(cache', Sibling[key[c]])
             /\ NoNewMark(cache') \/ Sibling[key[c]] \in guards'[c]
             /\ guards[c] \subseteq guards'[c]
             /\ guards'[c] \subseteq Keys
  <2>1. c \in Tasks /\ Sibling[key[c]] \in Keys
    BY KeyAssumption DEF FlightOK, Tasks
  <2>2. CASE MarkWins(Sibling[key[c]])
    BY <1>2, <2>1, <2>2, MarkFacts DEF MarkSibling, HandOK
  <2>3. CASE ~MarkWins(Sibling[key[c]])
    BY <1>2, <2>1, <2>3
    DEF MarkSibling, StoreOK, HandOK, Typed, KeepsLifetimes, MarksOnly, NoNewMark, Has
  <2> QED  BY <2>2, <2>3
<1>3. ASSUME NEW k \in Keys, ScanVisit(k)
      PROVE  /\ Typed(cache') /\ KeepsLifetimes(cache') /\ MarksOnly(cache', k)
             /\ NoNewMark(cache') \/ k \in picked'
  <2>1. CASE Expiring(k)
    <3>1. cache' = [cache EXCEPT ![k].pf = TRUE, ![k].hits = @ - 1] /\ k \in picked'
      BY <1>3, <2>1 DEF ScanVisit
    <3> QED  BY <2>1, <3>1, PickFacts
  <2>2. CASE ~Expiring(k)
    BY <1>3, <2>2
    DEF ScanVisit, StoreOK, Typed, KeepsLifetimes, MarksOnly, NoNewMark, Has
  <2> QED  BY <2>1, <2>2
<1> QED  BY <1>1, <1>2, <1>3

\* The two lookups count a hit and do nothing else to the store.
LEMMA GetActs ==
  ASSUME StoreOK, NEW c \in Clients, NEW k \in Keys, GetValid(c, k) \/ GetOther(c, k)
  PROVE  Typed(cache') /\ KeepsLifetimes(cache') /\ NoNewMark(cache')
<1>1. CASE Has(k)
  BY <1>1, HitFacts DEF GetValid, GetOther
<1>2. CASE ~Has(k)
  BY <1>2 DEF GetValid, GetOther, StoreOK, Typed, KeepsLifetimes, NoNewMark, Has
<1> QED  BY <1>1, <1>2

----------------------------------------------------------------------------


\* The store stays well-formed.
LEMMA StoreStep ==
  ASSUME StoreOK, FlightOK, HandOK, LoopOK, SyncBounded, [Next]_vars
  PROVE  StoreOK'
<1> USE KeyAssumption, NumberAssumption DEF StoreOK, FlightOK, HandOK, Typed, Tasks, Gens
<1>1. ASSUME NEW c \in Clients, NEW k \in Asked, GetValid(c, k)
      PROVE  (StoreOK)'
  <2>1. k \in Keys
    OBVIOUS
  <2>2. Typed(cache')
    BY <1>1, <2>1, GetActs
  <2>3. accessed' \subseteq Keys
    BY <1>1, <2>1 DEF GetValid, Access
  <2> QED  BY <1>1, <2>2, <2>3 DEF GetValid
<1>2. ASSUME NEW c \in Clients, NEW k \in Asked, GetOther(c, k)
      PROVE  (StoreOK)'
  <2>1. k \in Keys
    OBVIOUS
  <2>2. Typed(cache')
    BY <1>2, <2>1, GetActs
  <2>3. accessed' \subseteq Keys
    BY <1>2, <2>1 DEF GetOther, Access
  <2> QED  BY <1>2, <2>2, <2>3 DEF GetOther
<1>3. ASSUME NEW c \in Clients, MarkLost(c)
      PROVE  (StoreOK)'
  BY <1>3 DEF MarkLost, store
<1>4. ASSUME NEW c \in Clients, MarkWon(c)
      PROVE  (StoreOK)'
  BY <1>4, MarkActs DEF MarkWon, store
<1>5. ASSUME NEW c \in Clients, BumpOwn(c)
      PROVE  (StoreOK)'
  BY <1>5, BumpActs DEF BumpOwn, SyncUntil, store
<1>6. ASSUME NEW c \in Clients, MarkSibling(c)
      PROVE  (StoreOK)'
  BY <1>6, MarkActs DEF MarkSibling, store
<1>7. ASSUME NEW c \in Clients, BumpSibling(c)
      PROVE  (StoreOK)'
  BY <1>7, BumpActs DEF BumpSibling, store
<1>8. ASSUME NEW c \in Clients, NEW r \in Refreshers, SpawnRefresh(c, r)
      PROVE  (StoreOK)'
  BY <1>8 DEF SpawnRefresh, Handed, store
<1>9. ASSUME NEW r \in Refreshers, SendAccepted(r)
      PROVE  (StoreOK)'
  BY <1>9 DEF SendAccepted, store
<1>10. ASSUME NEW r \in Refreshers, SendRefused(r)
      PROVE  (StoreOK)'
  BY <1>10 DEF SendRefused, store
<1>11. ASSUME NEW r \in Refreshers, NEW k \in Keys, DropGuard(r, k)
      PROVE  (StoreOK)'
  BY <1>11, UnmarkFacts DEF DropGuard, store
<1>12. ASSUME NEW t \in Tasks, BecomeLeader(t)
      PROVE  (StoreOK)'
  BY <1>12 DEF BecomeLeader, Leaderless, store
<1>13. ASSUME NEW t \in Tasks, Subscribe(t)
      PROVE  (StoreOK)'
  BY <1>13 DEF Subscribe, Leaderless, store
<1>14. ASSUME NEW t \in Tasks, NEW ttl \in TTLs, NEW next \in {"store", "storeSib", "finish"}, UpstreamOk(t, ttl, next)
      PROVE  (StoreOK)'
  BY <1>14 DEF UpstreamOk, store
<1>15. ASSUME NEW t \in Tasks, UpstreamFailed(t)
      PROVE  (StoreOK)'
  BY <1>15 DEF UpstreamFailed, store
<1>16. ASSUME NEW t \in Tasks, NEW next \in {"storeSib", "finish"}, StoreOwn(t, next)
      PROVE  (StoreOK)'
  BY <1>16, StoreActs DEF StoreOwn, store
<1>17. ASSUME NEW t \in Tasks, StoreSibling(t)
      PROVE  (StoreOK)'
  BY <1>17, StoreActs DEF StoreSibling, store
<1>18. ASSUME NEW t \in Tasks, Finish(t)
      PROVE  (StoreOK)'
  BY <1>18 DEF Finish, store
<1>19. ASSUME NEW t \in Tasks, Receive(t)
      PROVE  (StoreOK)'
  BY <1>19 DEF Receive, store
<1>20. ASSUME ScanStart
      PROVE  (StoreOK)'
  BY <1>20 DEF ScanStart, store
<1>21. ASSUME NEW k \in Keys, ScanVisit(k)
      PROVE  (StoreOK)'
  BY <1>21, MarkActs DEF ScanVisit, store
<1>22. ASSUME NEW k \in Keys, NEW r \in Refreshers, Dispatch(k, r)
      PROVE  (StoreOK)'
  BY <1>22 DEF Dispatch, store
<1>23. ASSUME ScanEnd
      PROVE  (StoreOK)'
  BY <1>23 DEF ScanEnd, store
<1>24. ASSUME NEW k \in Keys, Purge(k)
      PROVE  (StoreOK)'
  BY <1>24, DropFacts DEF Purge, store
<1>25. ASSUME NEW k \in Keys, Clear(k)
      PROVE  (StoreOK)'
  BY <1>25, DropFacts DEF Clear, store
<1>26. ASSUME Reload
      PROVE  (StoreOK)'
  BY <1>26 DEF Reload, store
<1>27. ASSUME Tick
      PROVE  (StoreOK)'
  BY <1>27 DEF Tick, store
<1>28. CASE UNCHANGED vars
  BY <1>28 DEF vars
<1> HIDE DEF StoreOK, FlightOK, HandOK, Typed, Tasks, Gens
<1> QED
  BY <1>1, <1>2, <1>3, <1>4, <1>5, <1>6, <1>7, <1>8, <1>9, <1>10, <1>11, <1>12, <1>13, <1>14, <1>15, <1>16, <1>17, <1>18, <1>19, <1>20, <1>21, <1>22, <1>23, <1>24, <1>25, <1>26, <1>27, <1>28 DEF Next, Lookup, StaleStep, RefreshStep, FlightStep, Upstream, ScanStep

\* What the tasks and the prefetch loop hold stays well-formed.
LEMMA HandStep ==
  ASSUME StoreOK, FlightOK, HandOK, LoopOK, [Next]_vars
  PROVE  HandOK' /\ LoopOK'
<1> USE KeyAssumption, NumberAssumption DEF FlightOK, HandOK, LoopOK, Replies, Tasks
<1>1. ASSUME NEW c \in Clients, NEW k \in Asked, GetValid(c, k)
      PROVE  (HandOK /\ LoopOK)'
  BY <1>1 DEF GetValid, Answer, locals, loop, IsCurrent, Has, Entry, StoreOK
<1>2. ASSUME NEW c \in Clients, NEW k \in Asked, GetOther(c, k)
      PROVE  (HandOK /\ LoopOK)'
  BY <1>2 DEF GetOther, NoReply, loop
<1>3. ASSUME NEW c \in Clients, MarkLost(c)
      PROVE  (HandOK /\ LoopOK)'
  BY <1>3 DEF MarkLost, Answer, Leave, loop
<1>4. ASSUME NEW c \in Clients, MarkWon(c)
      PROVE  (HandOK /\ LoopOK)'
  BY <1>4 DEF MarkWon, loop
<1>5. ASSUME NEW c \in Clients, BumpOwn(c)
      PROVE  (HandOK /\ LoopOK)'
  BY <1>5 DEF BumpOwn, SyncUntil, loop, StoreOK
<1>6. ASSUME NEW c \in Clients, MarkSibling(c)
      PROVE  (HandOK /\ LoopOK)'
  BY <1>6, MarkActs DEF MarkSibling, loop
<1>7. ASSUME NEW c \in Clients, BumpSibling(c)
      PROVE  (HandOK /\ LoopOK)'
  BY <1>7 DEF BumpSibling, loop
<1>8. ASSUME NEW c \in Clients, NEW r \in Refreshers, SpawnRefresh(c, r)
      PROVE  (HandOK /\ LoopOK)'
  <2>1. c \in Tasks /\ r \in Tasks /\ now \in Nat /\ sync[c] \in Nat
    BY DEF StoreOK
  <2>2. (IF sync[c] > now THEN sync[c] - now ELSE 0) \in Nat
    BY <2>1
  <2>3. reply' \in [Clients -> Replies]
    BY <1>8, <2>2 DEF SpawnRefresh, Handed, Answer
  <2>4. guards' \in [Tasks -> SUBSET Keys]
    BY <1>8, <2>1 DEF SpawnRefresh, Handed
  <2> QED  BY <1>8, <2>1, <2>3, <2>4 DEF SpawnRefresh, Handed, loop
<1>9. ASSUME NEW r \in Refreshers, SendAccepted(r)
      PROVE  (HandOK /\ LoopOK)'
  BY <1>9 DEF SendAccepted, loop
<1>10. ASSUME NEW r \in Refreshers, SendRefused(r)
      PROVE  (HandOK /\ LoopOK)'
  BY <1>10 DEF SendRefused, loop
<1>11. ASSUME NEW r \in Refreshers, NEW k \in Keys, DropGuard(r, k)
      PROVE  (HandOK /\ LoopOK)'
  BY <1>11 DEF DropGuard, loop
<1>12. ASSUME NEW t \in Tasks, BecomeLeader(t)
      PROVE  (HandOK /\ LoopOK)'
  BY <1>12 DEF BecomeLeader, Leaderless, loop
<1>13. ASSUME NEW t \in Tasks, Subscribe(t)
      PROVE  (HandOK /\ LoopOK)'
  BY <1>13 DEF Subscribe, Leaderless, loop
<1>14. ASSUME NEW t \in Tasks, NEW ttl \in TTLs, NEW next \in {"store", "storeSib", "finish"}, UpstreamOk(t, ttl, next)
      PROVE  (HandOK /\ LoopOK)'
  BY <1>14 DEF UpstreamOk, loop
<1>15. ASSUME NEW t \in Tasks, UpstreamFailed(t)
      PROVE  (HandOK /\ LoopOK)'
  BY <1>15 DEF UpstreamFailed, Broadcast, Answer, loop
<1>16. ASSUME NEW t \in Tasks, NEW next \in {"storeSib", "finish"}, StoreOwn(t, next)
      PROVE  (HandOK /\ LoopOK)'
  BY <1>16 DEF StoreOwn, loop
<1>17. ASSUME NEW t \in Tasks, StoreSibling(t)
      PROVE  (HandOK /\ LoopOK)'
  BY <1>17 DEF StoreSibling, loop
<1>18. ASSUME NEW t \in Tasks, Finish(t)
      PROVE  (HandOK /\ LoopOK)'
  BY <1>18 DEF Finish, Broadcast, Answer, loop
<1>19. ASSUME NEW t \in Tasks, Receive(t)
      PROVE  (HandOK /\ LoopOK)'
  BY <1>19 DEF Receive, Leave, Answer, loop
<1>20. ASSUME ScanStart
      PROVE  (HandOK /\ LoopOK)'
  BY <1>20 DEF ScanStart, locals
<1>21. ASSUME NEW k \in Keys, ScanVisit(k)
      PROVE  (HandOK /\ LoopOK)'
  BY <1>21 DEF ScanVisit, locals
<1>22. ASSUME NEW k \in Keys, NEW r \in Refreshers, Dispatch(k, r)
      PROVE  (HandOK /\ LoopOK)'
  BY <1>22 DEF Dispatch
<1>23. ASSUME ScanEnd
      PROVE  (HandOK /\ LoopOK)'
  BY <1>23 DEF ScanEnd, locals
<1>24. ASSUME NEW k \in Keys, Purge(k)
      PROVE  (HandOK /\ LoopOK)'
  BY <1>24 DEF Purge, locals, loop
<1>25. ASSUME NEW k \in Keys, Clear(k)
      PROVE  (HandOK /\ LoopOK)'
  BY <1>25 DEF Clear, locals, loop
<1>26. ASSUME Reload
      PROVE  (HandOK /\ LoopOK)'
  BY <1>26 DEF Reload, locals, loop
<1>27. ASSUME Tick
      PROVE  (HandOK /\ LoopOK)'
  BY <1>27 DEF Tick, locals, loop
<1>28. CASE UNCHANGED vars
  BY <1>28 DEF vars
<1> HIDE DEF FlightOK, HandOK, LoopOK, Replies, Tasks
<1> QED
  BY <1>1, <1>2, <1>3, <1>4, <1>5, <1>6, <1>7, <1>8, <1>9, <1>10, <1>11, <1>12, <1>13, <1>14, <1>15, <1>16, <1>17, <1>18, <1>19, <1>20, <1>21, <1>22, <1>23, <1>24, <1>25, <1>26, <1>27, <1>28 DEF Next, Lookup, StaleStep, RefreshStep, FlightStep, Upstream, ScanStep

\* Markers keep their holders.
LEMMA MarkerStep ==
  ASSUME StoreOK, FlightOK, HandOK, LoopOK, SyncBounded, MarkerHeld, GuardsHome, [Next]_vars
  PROVE  MarkerHeld' /\ GuardsHome'
<1> USE KeyAssumption, TaskAssumption, NumberAssumption DEF FlightOK, HandOK, MarkerHeld, GuardsHome, Has, NoNewMark, MarksOnly, Tasks
<1>1. ASSUME NEW c \in Clients, NEW k \in Asked, GetValid(c, k)
      PROVE  (MarkerHeld /\ GuardsHome)'
  BY <1>1, GetActs DEF GetValid, locals, loop
<1>2. ASSUME NEW c \in Clients, NEW k \in Asked, GetOther(c, k)
      PROVE  (MarkerHeld /\ GuardsHome)'
  BY <1>2, GetActs DEF GetOther, loop
<1>3. ASSUME NEW c \in Clients, MarkLost(c)
      PROVE  (MarkerHeld /\ GuardsHome)'
  BY <1>3 DEF MarkLost, Leave, store, loop
<1>4. ASSUME NEW c \in Clients, MarkWon(c)
      PROVE  (MarkerHeld /\ GuardsHome)'
  <2>1. c \in Tasks /\ key[c] \in Keys /\ guards[c] = {}
    BY <1>4 DEF MarkWon
  <2>2. MarksOnly(cache', key[c])
    BY <1>4, MarkActs
  <2>3. key[c] \in guards'[c] /\ \A t \in Tasks : guards[t] \subseteq guards'[t]
    BY <1>4, <2>1 DEF MarkWon
  <2>4. MarkerHeld'
    BY <1>4, <2>1, <2>2, <2>3 DEF MarkWon, loop
  <2>5. GuardsHome'
    BY <1>4, <2>1 DEF MarkWon
  <2> QED  BY <2>4, <2>5
<1>5. ASSUME NEW c \in Clients, BumpOwn(c)
      PROVE  (MarkerHeld /\ GuardsHome)'
  BY <1>5, BumpActs DEF BumpOwn, SyncUntil, store, loop
<1>6. ASSUME NEW c \in Clients, MarkSibling(c)
      PROVE  (MarkerHeld /\ GuardsHome)'
  <2>1. c \in Tasks /\ Sibling[key[c]] \in Keys
    OBVIOUS
  <2>2. /\ MarksOnly(cache', Sibling[key[c]])
        /\ NoNewMark(cache') \/ Sibling[key[c]] \in guards'[c]
    BY <1>6, MarkActs
  <2>3. \A t \in Tasks : guards[t] \subseteq guards'[t]
    <3>1. guards[c] \subseteq guards'[c]
      BY <1>6, MarkActs
    <3>2. \A t \in Tasks \ {c} : guards'[t] = guards[t]
      BY <1>6 DEF MarkSibling
    <3> QED  BY <3>1, <3>2
  <2>4. MarkerHeld'
    BY <1>6, <2>1, <2>2, <2>3 DEF MarkSibling, loop
  <2>5. GuardsHome'
    BY <1>6, <2>1 DEF MarkSibling
  <2> QED  BY <2>4, <2>5
<1>7. ASSUME NEW c \in Clients, BumpSibling(c)
      PROVE  (MarkerHeld /\ GuardsHome)'
  BY <1>7, BumpActs DEF BumpSibling, store, loop
<1>8. ASSUME NEW c \in Clients, NEW r \in Refreshers, SpawnRefresh(c, r)
      PROVE  (MarkerHeld /\ GuardsHome)'
  BY <1>8 DEF SpawnRefresh, Handed, store, loop
<1>9. ASSUME NEW r \in Refreshers, SendAccepted(r)
      PROVE  (MarkerHeld /\ GuardsHome)'
  BY <1>9 DEF SendAccepted, store, loop
<1>10. ASSUME NEW r \in Refreshers, SendRefused(r)
      PROVE  (MarkerHeld /\ GuardsHome)'
  BY <1>10 DEF SendRefused, store, loop
<1>11. ASSUME NEW r \in Refreshers, NEW k \in Keys, DropGuard(r, k)
      PROVE  (MarkerHeld /\ GuardsHome)'
  BY <1>11, UnmarkFacts DEF DropGuard, store, loop
<1>12. ASSUME NEW t \in Tasks, BecomeLeader(t)
      PROVE  (MarkerHeld /\ GuardsHome)'
  BY <1>12 DEF BecomeLeader, Leaderless, store, loop
<1>13. ASSUME NEW t \in Tasks, Subscribe(t)
      PROVE  (MarkerHeld /\ GuardsHome)'
  BY <1>13 DEF Subscribe, Leaderless, store, loop
<1>14. ASSUME NEW t \in Tasks, NEW ttl \in TTLs, NEW next \in {"store", "storeSib", "finish"}, UpstreamOk(t, ttl, next)
      PROVE  (MarkerHeld /\ GuardsHome)'
  BY <1>14 DEF UpstreamOk, store, loop
<1>15. ASSUME NEW t \in Tasks, UpstreamFailed(t)
      PROVE  (MarkerHeld /\ GuardsHome)'
  BY <1>15 DEF UpstreamFailed, Broadcast, Followers, store, loop
<1>16. ASSUME NEW t \in Tasks, NEW next \in {"storeSib", "finish"}, StoreOwn(t, next)
      PROVE  (MarkerHeld /\ GuardsHome)'
  BY <1>16, StoreActs DEF StoreOwn, store, loop
<1>17. ASSUME NEW t \in Tasks, StoreSibling(t)
      PROVE  (MarkerHeld /\ GuardsHome)'
  BY <1>17, StoreActs DEF StoreSibling, store, loop
<1>18. ASSUME NEW t \in Tasks, Finish(t)
      PROVE  (MarkerHeld /\ GuardsHome)'
  BY <1>18 DEF Finish, Broadcast, Followers, store, loop
<1>19. ASSUME NEW t \in Tasks, Receive(t)
      PROVE  (MarkerHeld /\ GuardsHome)'
  BY <1>19 DEF Receive, Leave, store, loop
<1>20. ASSUME ScanStart
      PROVE  (MarkerHeld /\ GuardsHome)'
  BY <1>20 DEF ScanStart, locals, store
<1>21. ASSUME NEW k \in Keys, ScanVisit(k)
      PROVE  (MarkerHeld /\ GuardsHome)'
  <2>1. MarksOnly(cache', k) /\ (NoNewMark(cache') \/ k \in picked')
    BY <1>21, MarkActs
  <2>2. picked \subseteq picked' /\ guards' = guards /\ pc' = pc
    BY <1>21 DEF ScanVisit, locals
  <2> QED  BY <2>1, <2>2
<1>22. ASSUME NEW k \in Keys, NEW r \in Refreshers, Dispatch(k, r)
      PROVE  (MarkerHeld /\ GuardsHome)'
  BY <1>22 DEF Dispatch, store
<1>23. ASSUME ScanEnd
      PROVE  (MarkerHeld /\ GuardsHome)'
  BY <1>23 DEF ScanEnd, locals, store
<1>24. ASSUME NEW k \in Keys, Purge(k)
      PROVE  (MarkerHeld /\ GuardsHome)'
  BY <1>24, DropFacts DEF Purge, locals, loop
<1>25. ASSUME NEW k \in Keys, Clear(k)
      PROVE  (MarkerHeld /\ GuardsHome)'
  BY <1>25, DropFacts DEF Clear, locals, loop
<1>26. ASSUME Reload
      PROVE  (MarkerHeld /\ GuardsHome)'
  BY <1>26 DEF Reload, locals, store, loop
<1>27. ASSUME Tick
      PROVE  (MarkerHeld /\ GuardsHome)'
  BY <1>27 DEF Tick, locals, store, loop
<1>28. CASE UNCHANGED vars
  BY <1>28 DEF vars
<1> HIDE DEF FlightOK, HandOK, MarkerHeld, GuardsHome, Has, NoNewMark, MarksOnly, Tasks
<1> QED
  BY <1>1, <1>2, <1>3, <1>4, <1>5, <1>6, <1>7, <1>8, <1>9, <1>10, <1>11, <1>12, <1>13, <1>14, <1>15, <1>16, <1>17, <1>18, <1>19, <1>20, <1>21, <1>22, <1>23, <1>24, <1>25, <1>26, <1>27, <1>28 DEF Next, Lookup, StaleStep, RefreshStep, FlightStep, Upstream, ScanStep

\* Granted lifetimes stay short.
LEMMA TtlStep ==
  ASSUME StoreOK, FlightOK, HandOK, LoopOK, GrantBounded, SyncBounded, StaleTtlShort, [Next]_vars
  PROVE  GrantBounded' /\ SyncBounded' /\ StaleTtlShort'
<1> USE KeyAssumption, TaskAssumption, NumberAssumption DEF StoreOK, FlightOK, HandOK, GrantBounded, SyncBounded, StaleTtlShort, Has, KeepsLifetimes, LifetimesBy, Tasks, Entry, Replies
<1>1. ASSUME NEW c \in Clients, NEW k \in Asked, GetValid(c, k)
      PROVE  (GrantBounded /\ SyncBounded /\ StaleTtlShort)'
  <2>1. k \in Keys /\ cache[k] \in Entry /\ now \in Nat
    BY <1>1 DEF GetValid
  <2>2. /\ now' = now /\ sync' = sync
        /\ reply' = [reply EXCEPT ![c] = [stale |-> now > cache[k].exp, ttl |-> cache[k].until - now]]
        /\ now <= cache[k].until
    BY <1>1 DEF GetValid, locals, Answer, IsCurrent
  <2>3. KeepsLifetimes(cache')
    BY <1>1, <2>1, GetActs
  <2>4. GrantBounded' /\ SyncBounded'
    BY <2>2, <2>3
  <2>5. now > cache[k].exp => cache[k].until - now <= ReplyTtl
    BY <1>1, <2>1, <2>2 DEF GetValid
  <2>6. StaleTtlShort'
    BY <2>2, <2>5
  <2> QED  BY <2>4, <2>6
<1>2. ASSUME NEW c \in Clients, NEW k \in Asked, GetOther(c, k)
      PROVE  (GrantBounded /\ SyncBounded /\ StaleTtlShort)'
  BY <1>2, GetActs DEF GetOther, NoReply
<1>3. ASSUME NEW c \in Clients, MarkLost(c)
      PROVE  (GrantBounded /\ SyncBounded /\ StaleTtlShort)'
  BY <1>3 DEF MarkLost, Leave, Answer, store
<1>4. ASSUME NEW c \in Clients, MarkWon(c)
      PROVE  (GrantBounded /\ SyncBounded /\ StaleTtlShort)'
  BY <1>4, MarkActs DEF MarkWon, store
<1>5. ASSUME NEW c \in Clients, BumpOwn(c)
      PROVE  (GrantBounded /\ SyncBounded /\ StaleTtlShort)'
  <2>1. LifetimesBy(cache', now + ReplyTtl)
    BY <1>5, BumpActs
  <2>2. now' = now /\ reply' = reply /\ sync' = [sync EXCEPT ![c] = now + ReplyTtl]
    BY <1>5 DEF BumpOwn, SyncUntil
  <2>3. GrantBounded'
    BY <2>1, <2>2
  <2>4. SyncBounded' /\ StaleTtlShort'
    BY <2>2
  <2> QED  BY <2>3, <2>4
<1>6. ASSUME NEW c \in Clients, MarkSibling(c)
      PROVE  (GrantBounded /\ SyncBounded /\ StaleTtlShort)'
  BY <1>6, MarkActs DEF MarkSibling, store
<1>7. ASSUME NEW c \in Clients, BumpSibling(c)
      PROVE  (GrantBounded /\ SyncBounded /\ StaleTtlShort)'
  BY <1>7, BumpActs DEF BumpSibling, store
<1>8. ASSUME NEW c \in Clients, NEW r \in Refreshers, SpawnRefresh(c, r)
      PROVE  (GrantBounded /\ SyncBounded /\ StaleTtlShort)'
  BY <1>8 DEF SpawnRefresh, Handed, Answer, store
<1>9. ASSUME NEW r \in Refreshers, SendAccepted(r)
      PROVE  (GrantBounded /\ SyncBounded /\ StaleTtlShort)'
  BY <1>9 DEF SendAccepted, store
<1>10. ASSUME NEW r \in Refreshers, SendRefused(r)
      PROVE  (GrantBounded /\ SyncBounded /\ StaleTtlShort)'
  BY <1>10 DEF SendRefused, store
<1>11. ASSUME NEW r \in Refreshers, NEW k \in Keys, DropGuard(r, k)
      PROVE  (GrantBounded /\ SyncBounded /\ StaleTtlShort)'
  BY <1>11, UnmarkFacts DEF DropGuard, store
<1>12. ASSUME NEW t \in Tasks, BecomeLeader(t)
      PROVE  (GrantBounded /\ SyncBounded /\ StaleTtlShort)'
  BY <1>12 DEF BecomeLeader, Leaderless, store
<1>13. ASSUME NEW t \in Tasks, Subscribe(t)
      PROVE  (GrantBounded /\ SyncBounded /\ StaleTtlShort)'
  BY <1>13 DEF Subscribe, Leaderless, store
<1>14. ASSUME NEW t \in Tasks, NEW ttl \in TTLs, NEW next \in {"store", "storeSib", "finish"}, UpstreamOk(t, ttl, next)
      PROVE  (GrantBounded /\ SyncBounded /\ StaleTtlShort)'
  BY <1>14 DEF UpstreamOk, store
<1>15. ASSUME NEW t \in Tasks, UpstreamFailed(t)
      PROVE  (GrantBounded /\ SyncBounded /\ StaleTtlShort)'
  BY <1>15 DEF UpstreamFailed, Broadcast, Answer, store
<1>16. ASSUME NEW t \in Tasks, NEW next \in {"storeSib", "finish"}, StoreOwn(t, next)
      PROVE  (GrantBounded /\ SyncBounded /\ StaleTtlShort)'
  <2>1. Typed(cache') /\ LifetimesBy(cache', 0)
    BY <1>16, StoreActs
  <2>2. now' = now /\ reply' = reply /\ sync' = sync
    BY <1>16 DEF StoreOwn
  <2>3. \A j \in Keys : cache'[j] # NoEntry => cache'[j].until \in Nat
    BY <2>1 DEF Typed
  <2>4. GrantBounded'
    BY <2>1, <2>2, <2>3
  <2> QED  BY <2>2, <2>4
<1>17. ASSUME NEW t \in Tasks, StoreSibling(t)
      PROVE  (GrantBounded /\ SyncBounded /\ StaleTtlShort)'
  <2>1. Typed(cache') /\ LifetimesBy(cache', 0)
    BY <1>17, StoreActs
  <2>2. now' = now /\ reply' = reply /\ sync' = sync
    BY <1>17 DEF StoreSibling
  <2>3. \A j \in Keys : cache'[j] # NoEntry => cache'[j].until \in Nat
    BY <2>1 DEF Typed
  <2>4. GrantBounded'
    BY <2>1, <2>2, <2>3
  <2> QED  BY <2>2, <2>4
<1>18. ASSUME NEW t \in Tasks, Finish(t)
      PROVE  (GrantBounded /\ SyncBounded /\ StaleTtlShort)'
  BY <1>18 DEF Finish, Broadcast, Answer, store
<1>19. ASSUME NEW t \in Tasks, Receive(t)
      PROVE  (GrantBounded /\ SyncBounded /\ StaleTtlShort)'
  BY <1>19 DEF Receive, Leave, Answer, store
<1>20. ASSUME ScanStart
      PROVE  (GrantBounded /\ SyncBounded /\ StaleTtlShort)'
  BY <1>20 DEF ScanStart, locals, store
<1>21. ASSUME NEW k \in Keys, ScanVisit(k)
      PROVE  (GrantBounded /\ SyncBounded /\ StaleTtlShort)'
  BY <1>21, MarkActs DEF ScanVisit, locals
<1>22. ASSUME NEW k \in Keys, NEW r \in Refreshers, Dispatch(k, r)
      PROVE  (GrantBounded /\ SyncBounded /\ StaleTtlShort)'
  BY <1>22 DEF Dispatch, store
<1>23. ASSUME ScanEnd
      PROVE  (GrantBounded /\ SyncBounded /\ StaleTtlShort)'
  BY <1>23 DEF ScanEnd, locals, store
<1>24. ASSUME NEW k \in Keys, Purge(k)
      PROVE  (GrantBounded /\ SyncBounded /\ StaleTtlShort)'
  BY <1>24, DropFacts DEF Purge, locals
<1>25. ASSUME NEW k \in Keys, Clear(k)
      PROVE  (GrantBounded /\ SyncBounded /\ StaleTtlShort)'
  BY <1>25, DropFacts DEF Clear, locals
<1>26. ASSUME Reload
      PROVE  (GrantBounded /\ SyncBounded /\ StaleTtlShort)'
  BY <1>26 DEF Reload, locals, store
<1>27. ASSUME Tick
      PROVE  (GrantBounded /\ SyncBounded /\ StaleTtlShort)'
  BY <1>27 DEF Tick, locals, store
<1>28. CASE UNCHANGED vars
  BY <1>28 DEF vars
<1> HIDE DEF StoreOK, FlightOK, HandOK, GrantBounded, SyncBounded, StaleTtlShort, Has, KeepsLifetimes, LifetimesBy, Tasks, Entry, Replies
<1> QED
  BY <1>1, <1>2, <1>3, <1>4, <1>5, <1>6, <1>7, <1>8, <1>9, <1>10, <1>11, <1>12, <1>13, <1>14, <1>15, <1>16, <1>17, <1>18, <1>19, <1>20, <1>21, <1>22, <1>23, <1>24, <1>25, <1>26, <1>27, <1>28 DEF Next, Lookup, StaleStep, RefreshStep, FlightStep, Upstream, ScanStep

----------------------------------------------------------------------------

\* The invariant holds in the initial state.
LEMMA InitIInv == Init => IInv
<1> SUFFICES ASSUME Init PROVE IInv
  OBVIOUS
<1> USE AnyKeyOK, ZeroGen DEF Init
<1>1. TypeOK
  BY NumberAssumption
  DEF TypeOK, StoreOK, FlightOK, HandOK, LoopOK, PC, NoReply, Replies
<1>2. SingleFlight /\ NoOrphan
  BY TaskAssumption DEF SingleFlight, NoOrphan, LeaderPC
<1>3. MarkerHeld /\ GuardsHome
  BY DEF MarkerHeld, GuardsHome, Has
<1>4. GrantBounded /\ SyncBounded /\ StaleTtlShort
  BY NumberAssumption DEF GrantBounded, SyncBounded, StaleTtlShort, Has, NoReply
<1> QED  BY <1>1, <1>2, <1>3, <1>4 DEF IInv

\* The invariant is preserved by every step.
LEMMA StepIInv == IInv /\ [Next]_vars => IInv'
<1> SUFFICES ASSUME IInv, [Next]_vars PROVE IInv'
  OBVIOUS
<1> USE DEF IInv, TypeOK
<1>1. FlightOK' /\ SingleFlight' /\ NoOrphan'
  BY Flight DEF StoreOK
<1>2. StoreOK'
  BY StoreStep
<1>3. HandOK' /\ LoopOK'
  BY HandStep
<1>4. MarkerHeld' /\ GuardsHome'
  BY MarkerStep
<1>5. GrantBounded' /\ SyncBounded' /\ StaleTtlShort'
  BY TtlStep
<1> QED  BY <1>1, <1>2, <1>3, <1>4, <1>5

\* IInv is an invariant of the cache for every set of keys, clients and
\* refreshers, every reload bound and every value of the options.
THEOREM Inductive == Spec => []IInv
  BY InitIInv, StepIInv, PTL DEF Spec

\* Type correctness: in particular no TTL computed by `handle` (valid_until
\* minus now) and no hit counter get_expired decrements ever underflows.
THEOREM TypeCorrect == Spec => []TypeOK
<1>1. IInv => TypeOK
  BY DEF IInv
<1> QED  BY Inductive, <1>1, PTL

\* At most one task per middleware generation and key is asking the upstream,
\* and it is the one the inflight map names.
THEOREM SingleFlightHolds == Spec => []SingleFlight
<1>1. IInv => SingleFlight
  BY DEF IInv
<1> QED  BY Inductive, <1>1, PTL

\* A follower always waits on a live leader of its own key and generation.
THEOREM NoOrphanHolds == Spec => []NoOrphan
<1>1. IInv => NoOrphan
  BY DEF IInv
<1> QED  BY Inductive, <1>1, PTL

\* Every is_in_prefetching flag in the store has a holder that will clear it.
THEOREM MarkerHeldHolds == Spec => []MarkerHeld
<1>1. IInv => MarkerHeld
  BY DEF IInv
<1> QED  BY Inductive, <1>1, PTL

\* A reply made from expired data carries at most serve-expired-reply-ttl,
\* also when it comes from an entry whose lifetime earlier stale hits extended.
THEOREM StaleTtlShortHolds == Spec => []StaleTtlShort
<1>1. IInv => StaleTtlShort
  BY DEF IInv
<1> QED  BY Inductive, <1>1, PTL

----------------------------------------------------------------------------
(* The inflight maps implement Folding.                                    *)

Leads == [f \in Gens \X Keys |-> inflight[f[1]][f[2]]]
Joined == [f \in Gens \X Keys |->
             {t \in Tasks : pc[t] = "wait" /\ agen[t] = f[1] /\ key[t] = f[2]}]

\* What a step that concerns no flight leaves alone.
Unmoved ==
  /\ inflight' = inflight
  /\ \A t \in Tasks : /\ pc'[t] = "wait" <=> pc[t] = "wait"
                      /\ pc[t] = "wait" => agen'[t] = agen[t] /\ key'[t] = key[t]

\* Such a step is a stutter of Folding.
LEMMA UnmovedStutters == Unmoved => Leads' = Leads /\ Joined' = Joined
BY DEF Unmoved, Leads, Joined

\* Lookups, stale hits and refreshes touch no flight (handle, up to the block
\* under the inflight lock).
LEMMA QueryUnmoved ==
  ASSUME FlightOK,
         \/ Lookup
         \/ \E c \in Clients : StaleStep(c)
         \/ \E r \in Refreshers : RefreshStep(r)
  PROVE  Unmoved
<1> USE KeyAssumption, TaskAssumption DEF FlightOK, Unmoved, Tasks
<1>1. ASSUME NEW c \in Clients, NEW k \in Asked, GetValid(c, k) \/ GetOther(c, k) PROVE Unmoved
  BY <1>1 DEF GetValid, GetOther, locals
<1>2. ASSUME NEW c \in Clients, MarkLost(c) PROVE Unmoved
  BY <1>2 DEF MarkLost, Leave
<1>3. ASSUME NEW c \in Clients, MarkWon(c) \/ BumpOwn(c) PROVE Unmoved
  BY <1>3 DEF MarkWon, BumpOwn
<1>4. ASSUME NEW c \in Clients, MarkSibling(c) \/ BumpSibling(c) PROVE Unmoved
  BY <1>4 DEF MarkSibling, BumpSibling
<1>5. ASSUME NEW c \in Clients, NEW r \in Refreshers, SpawnRefresh(c, r) PROVE Unmoved
  BY <1>5 DEF SpawnRefresh
<1>6. ASSUME NEW r \in Refreshers, SendAccepted(r) \/ SendRefused(r) PROVE Unmoved
  BY <1>6 DEF SendAccepted, SendRefused
<1>7. ASSUME NEW r \in Refreshers, NEW k \in Keys, DropGuard(r, k) PROVE Unmoved
  BY <1>7 DEF DropGuard
<1>8. QED
  BY <1>1, <1>2, <1>3, <1>4, <1>5, <1>6, <1>7 DEF Lookup, StaleStep, RefreshStep

\* Nor does background work.
LEMMA RestUnmoved ==
  ASSUME FlightOK,
         \/ ScanStart \/ ScanStep
         \/ \E k \in Keys : Purge(k) \/ Clear(k)
         \/ Reload \/ Tick \/ UNCHANGED vars
  PROVE  Unmoved
<1> USE TaskAssumption DEF FlightOK, Unmoved, Tasks
<1>1. ASSUME NEW k \in Keys, NEW r \in Refreshers, Dispatch(k, r) PROVE Unmoved
  BY <1>1 DEF Dispatch
<1>2. ASSUME ScanStart \/ ScanEnd \/ \E k \in Keys : ScanVisit(k) PROVE Unmoved
  BY <1>2 DEF ScanStart, ScanEnd, ScanVisit, locals
<1>3. ASSUME (\E k \in Keys : Purge(k) \/ Clear(k)) \/ Reload \/ Tick PROVE Unmoved
  BY <1>3 DEF Purge, Clear, Reload, Tick, locals
<1>4. ASSUME UNCHANGED vars PROVE Unmoved
  BY <1>4 DEF vars
<1>5. QED
  BY <1>1, <1>2, <1>3, <1>4 DEF ScanStep

\* The steps of a flight between its beginning and its end.
LEMMA StoreUnmoved ==
  ASSUME FlightOK, NEW t \in Tasks,
         \/ \E ttl \in TTLs, next \in {"store", "storeSib", "finish"} : UpstreamOk(t, ttl, next)
         \/ \E next \in {"storeSib", "finish"} : StoreOwn(t, next)
         \/ StoreSibling(t) \/ Receive(t)
  PROVE  Unmoved
<1> USE DEF FlightOK, Unmoved
<1>1. ASSUME NEW ttl \in TTLs, NEW next \in {"store", "storeSib", "finish"}, UpstreamOk(t, ttl, next)
      PROVE  Unmoved
  BY <1>1 DEF UpstreamOk
<1>2. ASSUME NEW next \in {"storeSib", "finish"}, StoreOwn(t, next) PROVE Unmoved
  BY <1>2 DEF StoreOwn
<1>3. ASSUME StoreSibling(t) \/ Receive(t) PROVE Unmoved
  BY <1>3 DEF StoreSibling, Receive, Leave
<1>4. QED
  BY <1>1, <1>2, <1>3

\* A task that finds the map empty begins a flight (handle).
LEMMA LeadFolds ==
  ASSUME FlightOK, SingleFlight, NEW t \in Tasks, BecomeLeader(t),
         NEW f, f = <<agen[t], key[t]>>
  PROVE  Fold!Lead(f, t)
<1>1. f \in Gens \X Keys /\ Leads[f] = NoTask
  BY DEF FlightOK, Leads, BecomeLeader, Leaderless
<1>2. \A e \in Gens \X Keys : Leads[e] # t /\ t \notin Joined[e]
  BY DEF SingleFlight, BecomeLeader, Leads, Joined, LeaderPC
<1>3. Leads' = [Leads EXCEPT ![f] = t]
  <2>1. ASSUME NEW e \in Gens \X Keys
        PROVE  Leads'[e] = IF e = f THEN t ELSE Leads[e]
    <3>1. Leads'[e] = inflight'[e[1]][e[2]] /\ Leads[e] = inflight[e[1]][e[2]]
      BY DEF Leads
    <3>2. inflight' = [inflight EXCEPT ![agen[t]][key[t]] = t]
      BY DEF BecomeLeader
    <3>3. e[1] \in Gens /\ e[2] \in Keys /\ (e = f <=> e[1] = agen[t] /\ e[2] = key[t])
      OBVIOUS
    <3>4. QED
      BY <3>1, <3>2, <3>3 DEF FlightOK
  <2>2. QED
    BY <2>1, <1>1 DEF Leads
<1>4. Joined' = Joined
  BY DEF Joined, BecomeLeader, FlightOK
<1>5. QED
  BY <1>1, <1>2, <1>3, <1>4 DEF Fold!Lead, Fold!Free, Leads, Joined

\* A task that finds a sender joins its flight (handle).
LEMMA JoinFolds ==
  ASSUME FlightOK, SingleFlight, NEW t \in Tasks, Subscribe(t),
         NEW f, f = <<agen[t], key[t]>>
  PROVE  Fold!Join(f, t)
<1>1. f \in Gens \X Keys /\ Leads[f] # NoTask
  BY DEF FlightOK, Leads, Subscribe, Leaderless
<1>2. \A e \in Gens \X Keys : Leads[e] # t /\ t \notin Joined[e]
  BY DEF SingleFlight, Subscribe, Leads, Joined, LeaderPC
<1>3. Joined' = [Joined EXCEPT ![f] = Joined[f] \cup {t}]
  <2>1. ASSUME NEW e \in Gens \X Keys
        PROVE  Joined'[e] = IF e = f THEN Joined[e] \cup {t} ELSE Joined[e]
    <3>1. Joined'[e] = {w \in Tasks : pc'[w] = "wait" /\ agen'[w] = e[1] /\ key'[w] = e[2]}
      BY DEF Joined
    <3>2. Joined[e] = {w \in Tasks : pc[w] = "wait" /\ agen[w] = e[1] /\ key[w] = e[2]}
      BY DEF Joined
    <3>3. e = f <=> e[1] = agen[t] /\ e[2] = key[t]
      OBVIOUS
    <3>4. agen' = agen /\ key' = key /\ \A w \in Tasks : pc'[w] = IF w = t THEN "wait" ELSE pc[w]
      BY DEF Subscribe, FlightOK
    <3>5. \A w \in Tasks : w \in Joined'[e] <=> w \in Joined[e] \/ (w = t /\ e = f)
      BY <3>1, <3>2, <3>3, <3>4
    <3>6. QED
      BY <3>1, <3>2, <3>5
  <2>2. QED
    BY <2>1, <1>1 DEF Joined
<1>4. Leads' = Leads
  BY DEF Leads, Subscribe
<1>5. QED
  BY <1>1, <1>2, <1>3, <1>4 DEF Fold!Join, Fold!Free, Leads, Joined

\* The end of a leader is the end of its flight (handle, InflightCacheGuard).
LEMMA EndFolds ==
  ASSUME FlightOK, SingleFlight, NoOrphan, NEW t \in Tasks, Finish(t) \/ UpstreamFailed(t),
         NEW f, f = <<agen[t], key[t]>>
  PROVE  Fold!End(f)
<1>1. PICK outcome, ttl : outcome \in {"recv", "failed"} /\ Broadcast(t, outcome, ttl)
  <2>1. CASE Finish(t)
    <3>1. Broadcast(t, "recv", res[t])
      BY <2>1 DEF Finish
    <3>2. QED
      BY <3>1
  <2>2. CASE UpstreamFailed(t)
    <3>1. Broadcast(t, "failed", 0)
      BY <2>2 DEF UpstreamFailed
    <3>2. QED
      BY <3>1
  <2>3. QED
    BY <2>1, <2>2
<1>2. pc[t] \in LeaderPC /\ f \in Gens \X Keys
  BY DEF Finish, UpstreamFailed, LeaderPC, FlightOK
<1>3. inflight[agen[t]][key[t]] = t
  BY <1>2 DEF SingleFlight, FlightOK
<1>4. Leads[f] # NoTask
  BY <1>2, <1>3, TaskAssumption DEF Leads
<1>5. Leads' = [Leads EXCEPT ![f] = NoTask]
  <2>1. ASSUME NEW e \in Gens \X Keys
        PROVE  Leads'[e] = IF e = f THEN NoTask ELSE Leads[e]
    <3>1. Leads'[e] = inflight'[e[1]][e[2]] /\ Leads[e] = inflight[e[1]][e[2]]
      BY DEF Leads
    <3>2. inflight' = [inflight EXCEPT ![agen[t]][key[t]] = NoTask]
      BY <1>1 DEF Broadcast
    <3>3. e[1] \in Gens /\ e[2] \in Keys /\ (e = f <=> e[1] = agen[t] /\ e[2] = key[t])
      OBVIOUS
    <3>4. QED
      BY <3>1, <3>2, <3>3 DEF FlightOK
  <2>2. QED
    BY <2>1, <1>2 DEF Leads
<1>6. \A w \in Tasks : pc[w] = "wait" => (w \in Followers(t) <=> agen[w] = agen[t] /\ key[w] = key[t])
  <2>1. ASSUME NEW w \in Tasks, pc[w] = "wait", chan[w] = t
        PROVE  agen[w] = agen[t] /\ key[w] = key[t]
    BY <2>1 DEF NoOrphan, SingleFlight, FlightOK
  <2>2. ASSUME NEW w \in Tasks, pc[w] = "wait", agen[w] = agen[t], key[w] = key[t]
        PROVE  chan[w] = t
    BY <1>3, <2>2 DEF NoOrphan
  <2>3. QED
    BY <2>1, <2>2 DEF Followers
<1>7. pc[t] # "wait"
  BY <1>2 DEF LeaderPC
<1>8. \A w \in Tasks : pc'[w] = "wait" <=> pc[w] = "wait" /\ w \notin Followers(t)
  BY <1>1, <1>7 DEF Broadcast, Followers
<1>9. \A w \in Tasks : pc[w] = "wait" => agen'[w] = agen[w] /\ key'[w] = key[w]
  BY <1>1, <1>7 DEF Broadcast, FlightOK
<1>10. Joined' = [Joined EXCEPT ![f] = {}]
  <2>1. ASSUME NEW e \in Gens \X Keys PROVE Joined'[e] = IF e = f THEN {} ELSE Joined[e]
    <3>1. Joined'[e] = {w \in Tasks : pc'[w] = "wait" /\ agen'[w] = e[1] /\ key'[w] = e[2]}
      BY DEF Joined
    <3>2. Joined[e] = {w \in Tasks : pc[w] = "wait" /\ agen[w] = e[1] /\ key[w] = e[2]}
      BY DEF Joined
    <3>3. e = f <=> e[1] = agen[t] /\ e[2] = key[t]
      OBVIOUS
    <3>4. \A w \in Tasks : w \in Joined'[e] <=> w \in Joined[e] /\ e # f
      BY <1>6, <1>8, <1>9, <3>1, <3>2, <3>3
    <3>5. QED
      BY <3>1, <3>2, <3>4
  <2>2. QED
    BY <2>1, <1>2 DEF Joined
<1>11. QED
  BY <1>2, <1>4, <1>5, <1>10 DEF Fold!End, Leads, Joined

\* The cache implements Folding: per key and generation one task asks the
\* upstream, those that come meanwhile join it, and its end releases all of
\* them in one step, however it ends (handle, InflightCacheGuard::drop).
THEOREM CacheFoldsHolds == Spec => CacheFolds
<1>1. Init => Fold!Init
  BY DEF Init, Fold!Init
<1>2. ASSUME FlightOK, SingleFlight, NoOrphan, [Next]_vars
      PROVE  [Fold!Next]_<<Leads, Joined>>
  <2>1. ASSUME NEW t \in Tasks, BecomeLeader(t) \/ Subscribe(t) \/ Finish(t) \/ UpstreamFailed(t)
        PROVE  Fold!Next
    <3>1. PICK f \in Gens \X Keys : f = <<agen[t], key[t]>>
      BY <1>2 DEF FlightOK
    <3>2. Fold!Lead(f, t) \/ Fold!Join(f, t) \/ Fold!End(f)
      BY <1>2, <2>1, <3>1, LeadFolds, JoinFolds, EndFolds
    <3>3. QED
      BY <3>2 DEF Fold!Next
  <2>2. Unmoved \/ \E t \in Tasks : BecomeLeader(t) \/ Subscribe(t) \/ Finish(t) \/ UpstreamFailed(t)
    BY <1>2, QueryUnmoved, RestUnmoved, StoreUnmoved DEF Next, FlightStep, Upstream
  <2>3. QED
    BY <2>1, <2>2, UnmovedStutters
<1>3. IInv => FlightOK /\ SingleFlight /\ NoOrphan
  BY DEF IInv, TypeOK
<1>4. QED
  BY <1>1, <1>2, <1>3, Inductive, PTL DEF Spec, CacheFolds, Fold!Spec, Leads, Joined

----------------------------------------------------------------------------
(* What the hit counters say: a key with two hits has been asked for since *)
(* its last background refresh.                                            *)

Warm == PrefetchDomain => \A k \in Keys : Has(k) /\ cache[k].hits >= 2 => k \in accessed

\* There is a scan only with prefetch on.
ScanOn == ploop # "wait" => PrefetchDomain

\* No counter in the new store is above the old one.
HitsWithin(new) ==
  \A j \in Keys : new[j] # NoEntry => Has(j) /\ new[j].hits \in Nat /\ new[j].hits <= cache[j].hits

\* A marker set or cleared, a lifetime pushed forward and an entry removed
\* count no hit.
LEMMA HitsKept ==
  ASSUME StoreOK, NEW k \in Keys
  PROVE  /\ HitsWithin(cache) /\ HitsWithin(Mark(k)) /\ HitsWithin(Unmark(k))
         /\ \A t : HitsWithin(Bump(k, t))
         /\ HitsWithin([cache EXCEPT ![k] = NoEntry])
<1>1. \A j \in Keys : Has(j) => cache[j] \in Entry /\ cache[j].hits \in Nat /\ cache[j].hits <= cache[j].hits
  BY NumberAssumption DEF StoreOK, Has, Entry
<1>2. HitsWithin(cache)
  BY <1>1 DEF HitsWithin, Has
<1>3. HitsWithin([cache EXCEPT ![k] = NoEntry])
  BY <1>1 DEF HitsWithin, Has, StoreOK
<1>4. ASSUME NEW e, Has(k), e.hits = cache[k].hits
      PROVE  HitsWithin([cache EXCEPT ![k] = e])
  BY <1>1, <1>4 DEF HitsWithin, Has, StoreOK
<1>5. HitsWithin(Mark(k))
  <2>1. CASE Has(k)
    <3>1. Mark(k) = [cache EXCEPT ![k] = [cache[k] EXCEPT !.pf = TRUE]]
      BY <2>1 DEF Mark
    <3>2. [cache[k] EXCEPT !.pf = TRUE].hits = cache[k].hits
      BY <1>1, <2>1 DEF Entry
    <3>3. QED
      BY <1>4, <2>1, <3>1, <3>2
  <2>2. QED
    BY <1>2, <2>1 DEF Mark
<1>6. HitsWithin(Unmark(k))
  <2>1. CASE Has(k)
    <3>1. Unmark(k) = [cache EXCEPT ![k] = [cache[k] EXCEPT !.pf = FALSE]]
      BY <2>1 DEF Unmark
    <3>2. [cache[k] EXCEPT !.pf = FALSE].hits = cache[k].hits
      BY <1>1, <2>1 DEF Entry
    <3>3. QED
      BY <1>4, <2>1, <3>1, <3>2
  <2>2. QED
    BY <1>2, <2>1 DEF Unmark
<1>7. ASSUME NEW t PROVE HitsWithin(Bump(k, t))
  <2>1. CASE Has(k) /\ cache[k].until < t
    <3>1. Bump(k, t) = [cache EXCEPT ![k] = [cache[k] EXCEPT !.until = t]]
      BY <2>1 DEF Bump
    <3>2. [cache[k] EXCEPT !.until = t].hits = cache[k].hits
      BY <1>1, <2>1 DEF Entry
    <3>3. QED
      BY <1>4, <2>1, <3>1, <3>2
  <2>2. QED
    BY <1>2, <2>1 DEF Bump
<1>8. QED
  BY <1>2, <1>3, <1>5, <1>6, <1>7

\* A step that counts no hit and forgets no access keeps what the counters say.
LEMMA WarmKept ==
  ASSUME StoreOK, Warm, HitsWithin(cache'), accessed \subseteq accessed'
  PROVE  Warm'
<1>1. \A k \in Keys : Has(k) => cache[k].hits \in Nat
  BY NumberAssumption DEF StoreOK, Has, Entry
<1>2. QED
  BY <1>1 DEF Warm, HitsWithin, Has

\* A lookup that counts a hit remembers the access (DnsCache::get).
LEMMA GetWarm ==
  ASSUME StoreOK, Warm, NEW c \in Clients, NEW k \in Keys, GetValid(c, k) \/ GetOther(c, k)
  PROVE  Warm'
<1>1. CASE ~Has(k)
  <2>1. cache' = cache /\ accessed \subseteq accessed'
    BY <1>1 DEF GetValid, GetOther, Access
  <2>2. QED
    BY <2>1, HitsKept, WarmKept
<1>2. CASE Has(k)
  <2>1. cache' = [cache EXCEPT ![k] = Hit(@)] /\ accessed' = Access({k})
    BY <1>2 DEF GetValid, GetOther
  <2>2. \A j \in Keys : j # k => cache'[j] = cache[j]
    BY <2>1 DEF StoreOK
  <2>3. QED
    BY <2>1, <2>2 DEF Warm, Access, Has
<1>3. QED
  BY <1>1, <1>2

\* A background refresh leaves at most one hit, a query the hits there were
\* (insert_full_response).
LEMMA InsertWarm ==
  ASSUME StoreOK, Warm, NEW k \in Keys, NEW ttl, NEW bg \in BOOLEAN, Insert(k, ttl, bg)
  PROVE  Warm'
<1>1. PICK victim \in Keys :
        cache' = [j \in Keys |-> IF j = k THEN InsertEntry(k, ttl, bg)
                                 ELSE IF j = victim THEN NoEntry ELSE cache[j]]
  BY DEF Insert
<1>2. \A j \in Keys : Has(j) => cache[j].hits \in Nat
  BY NumberAssumption DEF StoreOK, Has, Entry
<1>3. InsertEntry(k, ttl, bg).hits = IF ~Has(k) THEN 0 ELSE IF bg THEN Capped(1) ELSE cache[k].hits
  BY DEF InsertEntry
<1>4. Capped(1) \in Nat /\ Capped(1) <= 1
  BY NumberAssumption DEF Capped
<1>5. ASSUME PrefetchDomain, NEW j \in Keys, cache'[j] # NoEntry, cache'[j].hits >= 2
      PROVE  j \in accessed'
  <2>1. CASE j = k
    <3>1. cache'[k] = InsertEntry(k, ttl, bg)
      BY <1>1
    <3>2. ~bg /\ Has(k) /\ cache[k].hits >= 2
      BY <1>3, <1>4, <1>5, <2>1, <3>1
    <3>3. k \in accessed
      BY <1>5, <3>2 DEF Warm
    <3>4. QED
      BY <2>1, <3>2, <3>3 DEF Insert
  <2>2. CASE j # k
    <3>1. cache'[j] = cache[j] /\ Has(j)
      BY <1>1, <1>5, <2>2 DEF Has
    <3>2. j \in accessed
      BY <1>5, <3>1 DEF Warm
    <3>3. QED
      BY <2>2, <3>2 DEF Insert
  <2>3. QED
    BY <2>1, <2>2
<1>6. QED
  BY <1>5 DEF Warm, Has

\* The pick of get_expired takes a hit away.
LEMMA VisitWarm ==
  ASSUME StoreOK, Warm, NEW k \in Keys, ScanVisit(k)
  PROVE  Warm'
<1>1. accessed' = accessed
  BY DEF ScanVisit
<1>2. CASE ~Expiring(k)
  BY <1>1, <1>2, HitsKept, WarmKept DEF ScanVisit
<1>3. CASE Expiring(k)
  <2>1. cache[k] \in Entry /\ cache[k].hits \in Nat /\ cache[k].hits >= 2 /\ Has(k)
    BY <1>3, NumberAssumption DEF StoreOK, Has, Expiring, Entry
  <2>2. PICK h \in Nat : h = cache[k].hits - 1 /\ h <= cache[k].hits
    BY <2>1
  <2>3. cache' = [cache EXCEPT ![k] = [cache[k] EXCEPT !.pf = TRUE, !.hits = h]]
    BY <1>3, <2>1, <2>2 DEF ScanVisit, StoreOK, Entry
  <2>4. [cache[k] EXCEPT !.pf = TRUE, !.hits = h].hits = h
    BY <2>1 DEF Entry
  <2>5. HitsWithin(cache)
    BY HitsKept
  <2>6. HitsWithin(cache')
    BY <2>1, <2>2, <2>3, <2>4, <2>5 DEF HitsWithin, Has, StoreOK
  <2>7. QED
    BY <1>1, <2>6, WarmKept
<1>4. QED
  BY <1>2, <1>3

\* Every step keeps what the counters say.
LEMMA WarmStep ==
  ASSUME StoreOK, FlightOK, HandOK, Warm, ScanOn, [Next]_vars
  PROVE  Warm' /\ ScanOn'
<1>1. \A t \in Tasks : key[t] \in Keys /\ Sibling[key[t]] \in Keys
  BY KeyAssumption DEF FlightOK
<1>2. \A c \in Clients : c \in Tasks
  BY DEF Tasks
<1>3. ASSUME store' = store PROVE Warm'
  BY <1>3 DEF store, Warm, Has
<1>4. ASSUME NEW c \in Clients, StaleStep(c) PROVE Warm'
  <2>1. CASE MarkLost(c) \/ \E r \in Refreshers : SpawnRefresh(c, r)
    BY <1>3, <2>1 DEF MarkLost, SpawnRefresh
  <2>2. CASE MarkWon(c)
    BY <1>1, <1>2, <2>2, HitsKept, WarmKept DEF MarkWon
  <2>3. CASE BumpOwn(c)
    BY <1>1, <1>2, <2>3, HitsKept, WarmKept DEF BumpOwn
  <2>4. CASE MarkSibling(c)
    <3>1. accessed' = accessed /\ (cache' = Mark(Sibling[key[c]]) \/ cache' = cache)
      BY <2>4 DEF MarkSibling
    <3>2. QED
      BY <1>1, <1>2, <3>1, HitsKept, WarmKept
  <2>5. CASE BumpSibling(c)
    BY <1>1, <1>2, <2>5, HitsKept, WarmKept DEF BumpSibling
  <2>6. QED
    BY <1>4, <2>1, <2>2, <2>3, <2>4, <2>5 DEF StaleStep
<1>5. ASSUME NEW r \in Refreshers, RefreshStep(r) PROVE Warm'
  <2>1. CASE SendAccepted(r) \/ SendRefused(r)
    BY <1>3, <2>1 DEF SendAccepted, SendRefused
  <2>2. ASSUME NEW k \in Keys, DropGuard(r, k) PROVE Warm'
    BY <2>2, HitsKept, WarmKept DEF DropGuard
  <2>3. QED
    BY <1>5, <2>1, <2>2 DEF RefreshStep
<1>6. ASSUME NEW t \in Tasks, FlightStep(t) PROVE Warm'
  <2>0. (t \in Refreshers) \in BOOLEAN
    OBVIOUS
  <2>1. CASE \E next \in {"storeSib", "finish"} : StoreOwn(t, next)
    <3>1. Insert(key[t], res[t], t \in Refreshers)
      BY <2>1 DEF StoreOwn
    <3>2. QED
      BY <1>1, <2>0, <3>1, InsertWarm
  <2>2. CASE StoreSibling(t)
    <3>1. Insert(Sibling[key[t]], res[t], t \in Refreshers)
      BY <2>2 DEF StoreSibling
    <3>2. QED
      BY <1>1, <2>0, <3>1, InsertWarm
  <2>3. CASE BecomeLeader(t) \/ Subscribe(t) \/ Upstream(t) \/ Finish(t) \/ Receive(t)
    BY <1>3, <2>3 DEF BecomeLeader, Subscribe, Upstream, UpstreamOk, UpstreamFailed, Finish, Receive
  <2>4. QED
    BY <1>6, <2>1, <2>2, <2>3 DEF FlightStep
<1>7. ASSUME ScanStep PROVE Warm'
  <2>1. CASE ScanEnd \/ \E k \in Keys, r \in Refreshers : Dispatch(k, r)
    BY <1>3, <2>1 DEF ScanEnd, Dispatch
  <2>2. QED
    BY <1>7, <2>1, VisitWarm DEF ScanStep
<1>8. ASSUME NEW k \in Keys, Purge(k) \/ Clear(k) PROVE Warm'
  BY <1>8, HitsKept, WarmKept DEF Purge, Clear
<1>9. ASSUME ScanStart \/ Reload \/ Tick \/ UNCHANGED vars PROVE Warm'
  BY <1>3, <1>9 DEF ScanStart, Reload, Tick, vars, store
<1>10. ASSUME Lookup PROVE Warm'
  BY <1>10, GetWarm, KeyAssumption DEF Lookup
<1>11. Warm'
  BY <1>4, <1>5, <1>6, <1>7, <1>8, <1>9, <1>10 DEF Next
<1>12. ScanOn'
  <2>1. PrefetchDomain \/ (ploop = "wait" /\ ploop' = "wait")
    <3>1. SUFFICES ASSUME ploop = "wait", ~PrefetchDomain PROVE ploop' = "wait"
      BY DEF ScanOn
    <3>2. CASE Lookup
      BY <3>1, <3>2 DEF Lookup, GetValid, GetOther, loop
    <3>3. CASE \E c \in Clients : StaleStep(c)
      BY <3>1, <3>3
      DEF StaleStep, MarkLost, MarkWon, BumpOwn, MarkSibling, BumpSibling, SpawnRefresh, loop
    <3>4. CASE \E r \in Refreshers : RefreshStep(r)
      BY <3>1, <3>4 DEF RefreshStep, SendAccepted, SendRefused, DropGuard, loop
    <3>5. CASE \E t \in Tasks : FlightStep(t)
      BY <3>1, <3>5
      DEF FlightStep, BecomeLeader, Subscribe, Upstream, UpstreamOk, UpstreamFailed, StoreOwn,
          StoreSibling, Finish, Receive, loop
    <3>6. CASE ScanStart \/ ScanStep
      BY <3>1, <3>6 DEF ScanStart, ScanStep, ScanEnd, ScanVisit, Dispatch
    <3>7. CASE (\E k \in Keys : Purge(k) \/ Clear(k)) \/ Reload \/ Tick \/ UNCHANGED vars
      BY <3>1, <3>7 DEF Purge, Clear, Reload, Tick, vars, loop
    <3>8. QED
      BY <3>2, <3>3, <3>4, <3>5, <3>6, <3>7 DEF Next
  <2>2. QED
    BY <2>1 DEF ScanOn
<1>13. QED
  BY <1>11, <1>12

\* Only the scan picks, and it picks keys with two hits.
LEMMA PicksWarm ==
  ASSUME StoreOK, Warm, ScanOn, [Next]_vars, NEW k \in Keys, k \in picked' \ picked
  PROVE  k \in accessed
<1>1. CASE Lookup
  BY <1>1 DEF Lookup, GetValid, GetOther, loop
<1>2. CASE \E c \in Clients : StaleStep(c)
  BY <1>2 DEF StaleStep, MarkLost, MarkWon, BumpOwn, MarkSibling, BumpSibling, SpawnRefresh, loop
<1>3. CASE \E r \in Refreshers : RefreshStep(r)
  BY <1>3 DEF RefreshStep, SendAccepted, SendRefused, DropGuard, loop
<1>4. CASE \E t \in Tasks : FlightStep(t)
  BY <1>4
  DEF FlightStep, BecomeLeader, Subscribe, Upstream, UpstreamOk, UpstreamFailed, StoreOwn,
      StoreSibling, Finish, Receive, loop
<1>5. CASE ScanStart \/ ScanEnd \/ \E j \in Keys, r \in Refreshers : Dispatch(j, r)
  BY <1>5 DEF ScanStart, ScanEnd, Dispatch
<1>6. ASSUME NEW j \in Keys, ScanVisit(j) PROVE k \in accessed
  <2>1. j = k /\ Expiring(j) /\ ploop = "scan"
    BY <1>6 DEF ScanVisit
  <2>2. QED
    BY <2>1 DEF Expiring, Warm, ScanOn
<1>7. CASE (\E j \in Keys : Purge(j) \/ Clear(j)) \/ Reload \/ Tick \/ UNCHANGED vars
  BY <1>7 DEF Purge, Clear, Reload, Tick, vars, loop
<1>8. QED
  BY <1>1, <1>2, <1>3, <1>4, <1>5, <1>6, <1>7 DEF Next, ScanStep

\* After a background refresh a key is picked again only if a client has asked
\* for it since, whatever else the store goes through meanwhile (get_expired,
\* insert_full_response).
THEOREM ColdNotPrefetchedHolds == Spec => ColdNotPrefetched
<1>1. Init => Warm /\ ScanOn
  BY DEF Init, Warm, ScanOn, Has
<1>2. IInv => StoreOK /\ FlightOK /\ HandOK
  BY DEF IInv, TypeOK
<1>3. IInv /\ Warm /\ ScanOn /\ [Next]_vars => Warm' /\ ScanOn'
  BY <1>2, WarmStep
<1>4. Spec => [](IInv /\ Warm /\ ScanOn)
  BY <1>1, <1>3, Inductive, PTL DEF Spec
<1>5. IInv /\ Warm /\ ScanOn /\ [Next]_vars => [\A k \in Keys : k \in picked' \ picked => k \in accessed]_vars
  BY <1>2, PicksWarm
<1>6. QED
  BY <1>4, <1>5, PTL DEF Spec, ColdNotPrefetched
=============================================================================
