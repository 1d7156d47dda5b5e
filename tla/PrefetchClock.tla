---------------------------- MODULE PrefetchClock ---------------------------
(***************************************************************************)
(* The clock of the prefetch task (dns_mw_cache.rs: notify_after and the   *)
(* loop of spawn_prefetch_task).  DnsCache lets the scan start at any      *)
(* time; this module is about when it does: an answer asks for a wake-up   *)
(* when the shortest TTL in it is over, which need not be when its entry   *)
(* expires; wake-ups are coalesced through tick, and scans are kept        *)
(* MinInterval apart.  Time counts in whole units of TTL; a task that can  *)
(* run does so within the unit.                                            *)
(***************************************************************************)
EXTENDS Integers, FiniteSets

CONSTANTS
  Hosts,           \* cache keys of address queries, all the scan looks at
  NoHost,          \* "not in the cache"
  Armers,          \* tasks that may be inside notify_after at once
  Ttls,            \* TTLs in answers
  MinInterval,     \* PREFETCH_MIN_INTERVAL
  LongestTtl,      \* MAX_TTL, the wait when no entry is current
  PrefetchAfter,   \* serve-expired-prefetch-time
  Ahead,           \* ahead_secs: how early an entry is due without serve-expired
  StaleTtl,        \* serve-expired-reply-ttl
  MaxTime          \* bound on elapsed time

Loop == "loop"     \* the prefetch task as a caller of notify_after

ASSUME ClockAssumption ==
  /\ Loop \notin Armers
  /\ Ttls \subseteq Nat /\ MinInterval \in Nat \ {0}
  /\ LongestTtl \in Nat /\ PrefetchAfter \in Nat /\ MaxTime \in Nat
  /\ Ahead \in Nat /\ StaleTtl \in Nat

VARIABLES
  time,
  stock,     \* the cache: [until, hits, marked, armed, wake, seen]; as history:
             \* a wake-up was asked for (armed, and for when) since its expiry was
             \* last moved, and a scan has found it due (seen)
  tick,      \* DomainPrefetchingNotify::tick
  timers,    \* when the spawned sleeps end
  permit,    \* Notify: a wake-up nobody has taken yet
  arming,    \* notify_after under way: its duration and the tick it has read
  ptask,     \* the prefetch task: "off", "wait", "awake" or "arm"
  lastCheck  \* last_check

clockVars == <<time, stock, tick, timers, permit, arming, ptask, lastCheck>>

Callers == Armers \cup {Loop}
NotArming == [at |-> "idle", dur |-> 0, read |-> 0]

ClockInit ==
  /\ time = 0
  /\ stock = [k \in Hosts |-> NoHost]
  /\ tick = 0 /\ timers = {} /\ permit = FALSE
  /\ arming = [a \in Callers |-> NotArming]
  /\ ptask \in {"off", "wait"}
  /\ lastCheck = 0

----------------------------------------------------------------------------
(* notify_after.                                                           *)

\* Mutant: any wake-up ahead is good enough.
SoonAny(a) == arming[a].read > time

\* A wake-up that comes first is pending.
SoonEnough(a) == arming[a].read > time /\ time + arming[a].dur > arming[a].read

Arm(a, d) == arming' = [arming EXCEPT ![a] = [at |-> "read", dur |-> d, read |-> 0]]
Disarm(a) == arming' = [arming EXCEPT ![a] = NotArming]

\* The loop waits for the next wake-up when its own call is over.
Resume(a) == ptask' = IF a = Loop /\ ptask = "arm" THEN "wait" ELSE ptask

ReadTick(a) ==
  /\ arming[a].at = "read"
  /\ IF arming[a].dur = 0 THEN Disarm(a) /\ permit' = TRUE /\ Resume(a)
     ELSE /\ arming' = [arming EXCEPT ![a].at = "decide", ![a].read = tick]
          /\ UNCHANGED <<permit, ptask>>
  /\ UNCHANGED <<time, stock, tick, timers, lastCheck>>

\* tick is written under a lock of its own, and the sleep is spawned.
WriteTick(a) ==
  /\ arming[a].at = "decide"
  /\ IF SoonEnough(a) THEN UNCHANGED <<tick, timers>>
     ELSE /\ tick' = time + arming[a].dur
          /\ timers' = timers \cup {time + arming[a].dur}
  /\ Disarm(a) /\ Resume(a)
  /\ UNCHANGED <<time, stock, permit, lastCheck>>

\* A sleep ends: notify_one.
Fire(t) ==
  /\ t \in timers /\ t <= time
  /\ timers' = timers \ {t}
  /\ permit' = TRUE
  /\ UNCHANGED <<time, stock, tick, arming, ptask, lastCheck>>

----------------------------------------------------------------------------
(* The prefetch task.                                                      *)

\* notified() returns.
Wake ==
  /\ ptask = "wait" /\ permit
  /\ permit' = FALSE /\ ptask' = "awake"
  /\ UNCHANGED <<time, stock, tick, timers, arming, lastCheck>>

Expired(k) == stock[k] # NoHost /\ time > stock[k].until

\* get_expired: with serve-expired an entry is due when it has expired, without
\* it some time before.
Due(k, serve) == stock[k] # NoHost /\ time + (IF serve THEN 0 ELSE Ahead) > stock[k].until

\* What get_expired picks of them: asked for twice and, if it may be served
\* stale, expired for long enough.
Picked(k, serve) ==
  /\ Due(k, serve) /\ ~stock[k].marked
  /\ serve => time - stock[k].until >= PrefetchAfter
  /\ stock[k].hits >= 2

\* get_expired's most_recent: how long the first entry that is not due lives on.
MostRecent(serve) ==
  LET left == {stock[k].until - time :
                 k \in {j \in Hosts : stock[j] # NoHost /\ ~stock[j].marked /\ ~Due(j, serve)}}
               \cup {LongestTtl}
  IN  CHOOSE n \in left : \A o \in left : n <= o

Longer(m, n) == IF m > n THEN m ELSE n

\* A scan, unless the last one is too recent, and the next wake-up.  A reload
\* may have changed serve-expired since the scan before.
Scan(serve) ==
  /\ ptask = "awake" /\ arming[Loop].at = "idle"
  /\ IF time - lastCheck > MinInterval
     THEN /\ lastCheck' = time
          /\ stock' = [k \in Hosts |->
               IF Picked(k, serve) THEN [stock[k] EXCEPT !.marked = TRUE, !.hits = @ - 1, !.seen = TRUE]
               ELSE IF Due(k, serve) THEN [stock[k] EXCEPT !.seen = TRUE] ELSE stock[k]]
          /\ Arm(Loop, Longer(MostRecent(serve), MinInterval))
     ELSE /\ Arm(Loop, MinInterval)
          /\ UNCHANGED <<stock, lastCheck>>
  /\ ptask' = "arm"
  /\ UNCHANGED <<time, tick, timers, permit>>

\* sync_prefetch_task on a reload: the task is cancelled where it waits, or a
\* new one starts.
SwitchPrefetch ==
  /\ \/ ptask = "wait" /\ ptask' = "off" /\ UNCHANGED lastCheck
     \/ ptask = "off" /\ ptask' = "wait" /\ lastCheck' = time
  /\ UNCHANGED <<time, stock, tick, timers, permit, arming>>

----------------------------------------------------------------------------
(* Queries.                                                                *)

\* insert_full_response: an entry that is there keeps its hits, unless the answer
\* is that of a background refresh.
Hits(k) == IF stock[k] = NoHost THEN {0} ELSE {1, stock[k].hits}

\* An answer is stored for ttl and asks for a wake-up after its min_ttl, the
\* shortest TTL of all sections.  A negative one is stored for the minimum of its
\* SOA or, without one, for a fixed time, so either may be the longer.
Store(a, k, ttl, minTtl) ==
  /\ arming[a].at = "idle"
  /\ \E h \in Hits(k) :
       stock' = [stock EXCEPT ![k] = [until |-> time + ttl, hits |-> h, marked |-> FALSE,
                                      armed |-> TRUE, wake |-> time + minTtl, seen |-> FALSE]]
  /\ Arm(a, minTtl)
  /\ UNCHANGED <<time, tick, timers, permit, ptask, lastCheck>>

\* No wake-up is asked for: prefetch-domain is off for the rule group, the answer
\* has no record at all, the dual-stack check brought it along, or it is from
\* the cache file.
StoreOnly(k, ttl) ==
  /\ \E h \in Hits(k) :
       stock' = [stock EXCEPT ![k] = [until |-> time + ttl, hits |-> h, marked |-> FALSE,
                                      armed |-> FALSE, wake |-> 0, seen |-> FALSE]]
  /\ UNCHANGED <<time, tick, timers, permit, arming, ptask, lastCheck>>

\* get; beyond two hits nothing changes for the scan.
Ask(k) ==
  /\ stock[k] # NoHost /\ stock[k].hits < 2
  /\ stock' = [stock EXCEPT ![k].hits = @ + 1]
  /\ UNCHANGED <<time, tick, timers, permit, arming, ptask, lastCheck>>

\* A stale hit marks its entry, and that of the other address family, and has
\* them taken for current; nobody asks for a wake-up at the new expiry.
Stale(k) ==
  /\ stock[k] # NoHost /\ ~stock[k].marked
  /\ stock' = [stock EXCEPT ![k].marked = TRUE, ![k].armed = FALSE,
                            ![k].until = Longer(@, time + StaleTtl)]
  /\ UNCHANGED <<time, tick, timers, permit, arming, ptask, lastCheck>>

\* The refresh of a marked key has failed: PrefetchGuard::drop.
GiveUp(k) ==
  /\ stock[k] # NoHost /\ stock[k].marked
  /\ stock' = [stock EXCEPT ![k].marked = FALSE]
  /\ UNCHANGED <<time, tick, timers, permit, arming, ptask, lastCheck>>

\* clear, purge_dead_records, or pushed out by a full shard.
Remove(k) ==
  /\ stock[k] # NoHost
  /\ stock' = [stock EXCEPT ![k] = NoHost]
  /\ UNCHANGED <<time, tick, timers, permit, arming, ptask, lastCheck>>

Elapse ==
  /\ time < MaxTime
  /\ \A a \in Callers : arming[a].at = "idle"
  /\ \A t \in timers : t > time
  /\ ptask # "awake" /\ ~(ptask = "wait" /\ permit)
  /\ time' = time + 1
  /\ UNCHANGED <<stock, tick, timers, permit, arming, ptask, lastCheck>>

ClockNext ==
  \/ \E a \in Callers : ReadTick(a) \/ WriteTick(a)
  \/ \E t \in timers : Fire(t)
  \/ Wake \/ (\E serve \in BOOLEAN : Scan(serve)) \/ SwitchPrefetch
  \/ \E a \in Armers, k \in Hosts, ttl, minTtl \in Ttls : Store(a, k, ttl, minTtl)
  \/ \E k \in Hosts, ttl \in Ttls : StoreOnly(k, ttl)
  \/ \E k \in Hosts : Ask(k) \/ Stale(k) \/ GiveUp(k) \/ Remove(k)
  \/ Elapse

ClockSpec == ClockInit /\ [][ClockNext]_clockVars

----------------------------------------------------------------------------
(* Properties.                                                             *)

\* No wake-up is lost: while an entry that asked for one has expired and no scan
\* has found it due, the time it asked for is not past or the last scan is at
\* most two minimal intervals ago, however the calls of notify_after interleave
\* and also when prefetch was switched off and on meanwhile, a new task starting
\* its interval anew.  (For an answer with records the time asked for is no later
\* than the expiry.)
ScanDue ==
  \A k \in Hosts :
    Expired(k) /\ stock[k].armed /\ ~stock[k].seen /\ ptask # "off" =>
      time <= Longer(stock[k].wake, lastCheck + 2 * MinInterval)
=============================================================================
