------------------------- MODULE ConnLimiterProofs -------------------------
(***************************************************************************)
(* The connection limits, for any listeners, limits, connections and       *)
(* addresses.                                                              *)
(***************************************************************************)
EXTENDS ConnLimiter, FiniteSetTheorems, TLAPS

\* The connections counted in the total of limiter m, and in the entry of
\* source s in its map.
InTotal(m) == {c \in Conns : m \in held[c] /\ giving[c] # m}
InEntry(m, s) == {c \in Conns : m \in held[c] /\ SourceKey(peer[c]) = s}

\* A connection holds guards from its admission until its drop has given them
\* back, and gives back one at a time.
GuardsOK ==
  \A c \in Conns :
    /\ st[c] = "free" => held[c] = {}
    /\ st[c] = "admit" => held[c] = {Global}
    /\ giving[c] # NoLimiter => st[c] = "closing" /\ giving[c] \in held[c]

\* Both counters are exact.
CountsOK ==
  \A m \in Limiters :
    /\ current[m] = Cardinality(InTotal(m))
    /\ \A s \in Sources :
         /\ per[m][s] = Cardinality(InEntry(m, s))
         /\ InEntry(m, s) # {} => s \in known[m]

\* Neither counter exceeds its limit.
Bounded ==
  \A m \in Limiters :
    /\ current[m] <= MaxConnections[m]
    /\ \A s \in Sources : per[m][s] <= MaxPerSource[m]

LimitInv == LimitTypeOK /\ GuardsOK /\ CountsOK /\ Bounded

----------------------------------------------------------------------------

\* One client has one key: normalisation and the /64 of IPv6 identify exactly
\* the addresses that belong together (normalize_client_ip, SourceKey::from_ip).
LEMMA KeyFaithful ==
  ASSUME NEW a \in Peers, NEW b \in Peers
  PROVE  SamePeer(a, b) <=> SourceKey(a) = SourceKey(b)
<1>1. /\ a \in [kind : STRING, net : Nat, host : Nat] /\ AddrShape(a)
      /\ b \in [kind : STRING, net : Nat, host : Nat] /\ AddrShape(b)
  BY PeerAssumption
<1>2. CASE a.kind = "v6" /\ b.kind = "v6"
  BY <1>1, <1>2 DEF SamePeer, SourceKey, Normalize, AddrShape
<1>3. CASE a.kind = "v6" /\ b.kind # "v6"
  BY <1>1, <1>3 DEF SamePeer, SourceKey, Normalize, AddrShape
<1>4. CASE a.kind # "v6" /\ b.kind = "v6"
  BY <1>1, <1>4 DEF SamePeer, SourceKey, Normalize, AddrShape
<1>5. CASE a.kind # "v6" /\ b.kind # "v6"
  BY <1>1, <1>5 DEF SamePeer, SourceKey, Normalize, AddrShape
<1>6. QED
  BY <1>2, <1>3, <1>4, <1>5

\* One connection more in a set of connections.
LEMMA Plus ==
  ASSUME NEW S \in SUBSET Conns, NEW T, NEW c \in Conns, c \notin S, T = S \cup {c}
  PROVE  Cardinality(T) = Cardinality(S) + 1
BY FS_AddElement, FS_Subset, FiniteAssumption

\* One connection less.
LEMMA Minus ==
  ASSUME NEW S \in SUBSET Conns, NEW T, NEW c \in S, T = S \ {c}
  PROVE  /\ Cardinality(T) = Cardinality(S) - 1 /\ Cardinality(S) \in Nat /\ Cardinality(S) >= 1
         /\ Cardinality(S) = 1 => T = {}
<1>1. IsFiniteSet(S) /\ IsFiniteSet(T)
  BY FS_Subset, FiniteAssumption
<1>2. Cardinality(T) = Cardinality(S) - 1 /\ Cardinality(S) \in Nat /\ Cardinality(T) \in Nat
  BY <1>1, FS_RemoveElement, FS_CardinalityType
<1>3. Cardinality(T) = 0 => T = {}
  BY <1>1, FS_EmptySet
<1>4. QED
  BY <1>2, <1>3

\* A step that counts nothing and moves no guard keeps the counters exact; an
\* entry may be added (entry().or_insert(0)), and a slot without guards reused.
LEMMA CountsKept ==
  ASSUME CountsOK, UNCHANGED <<current, per>>,
         \A m \in Limiters : known[m] \subseteq known'[m],
         \A c \in Conns : /\ held'[c] = held[c] /\ giving'[c] = giving[c]
                          /\ held[c] # {} => peer'[c] = peer[c]
  PROVE  CountsOK'
<1>1. \A m \in Limiters : InTotal(m)' = InTotal(m)
  BY DEF InTotal
<1>2. \A m \in Limiters, s \in Sources : InEntry(m, s)' = InEntry(m, s)
  BY DEF InEntry
<1>3. QED
  BY <1>1, <1>2 DEF CountsOK

\* The counters are zero and there are no guards at first.
LEMMA LimitInitial == LimitInit => LimitInv
<1> SUFFICES ASSUME LimitInit PROVE LimitInv
  OBVIOUS
<1>1. AnyListener \in Listeners /\ AnyPeer \in Peers
  BY PeerAssumption DEF AnyListener, AnyPeer
<1>2. LimitTypeOK
  BY <1>1 DEF LimitInit, LimitTypeOK
<1>3. GuardsOK
  BY DEF LimitInit, GuardsOK
<1>4. CountsOK
  <2>1. \A m \in Limiters : InTotal(m) = {} /\ \A s \in Sources : InEntry(m, s) = {}
    BY DEF LimitInit, InTotal, InEntry
  <2>2. Cardinality({}) = 0
    BY FS_EmptySet
  <2>3. \A m \in Limiters : current[m] = 0 /\ \A s \in Sources : per[m][s] = 0
    BY DEF LimitInit
  <2>4. QED
    BY <2>1, <2>2, <2>3 DEF CountsOK
<1>5. Bounded
  BY LimiterAssumption DEF LimitInit, Bounded
<1>6. QED
  BY <1>2, <1>3, <1>4, <1>5 DEF LimitInv

\* acquire counts a connection in the total and in the entry of its source,
\* within the limits.
LEMMA Counted ==
  ASSUME LimitTypeOK, CountsOK, Bounded, NEW c \in Conns, NEW m \in Limiters, NEW s \in Sources,
         m \notin held[c], giving[c] # m, giving' = giving,
         held' = [held EXCEPT ![c] = held[c] \cup {m}],
         ~Full(m, s), Touch(m, s), Count(m, s),
         SourceKey(peer'[c]) = s, held[c] # {} => peer'[c] = peer[c],
         \A d \in Conns : d # c => peer'[d] = peer[d]
  PROVE  CountsOK' /\ Bounded'
<1>1. /\ InTotal(m)' = InTotal(m) \cup {c} /\ c \notin InTotal(m)
      /\ \A n \in Limiters : n # m => InTotal(n)' = InTotal(n)
  BY DEF InTotal, LimitTypeOK
<1>2. /\ InEntry(m, s)' = InEntry(m, s) \cup {c} /\ c \notin InEntry(m, s)
      /\ \A n \in Limiters, x \in Sources : n # m \/ x # s => InEntry(n, x)' = InEntry(n, x)
  <2>1. \A d \in Conns : held'[d] = IF d = c THEN held[c] \cup {m} ELSE held[d]
    BY DEF LimitTypeOK
  <2>2. InEntry(m, s)' = InEntry(m, s) \cup {c} /\ c \notin InEntry(m, s)
    BY <2>1 DEF InEntry
  <2>3. ASSUME NEW n \in Limiters, NEW x \in Sources, n # m \/ x # s
        PROVE  InEntry(n, x)' = InEntry(n, x)
    <3>1. ASSUME NEW d \in Conns
          PROVE  (n \in held'[d] /\ SourceKey(peer'[d]) = x) <=> (n \in held[d] /\ SourceKey(peer[d]) = x)
      <4>1. CASE d = c
        BY <2>1, <2>3, <4>1
      <4>2. CASE d # c
        BY <2>1, <4>2
      <4>3. QED
        BY <4>1, <4>2
    <3>2. QED
      BY <3>1 DEF InEntry
  <2>4. QED
    BY <2>2, <2>3
<1>3. /\ Cardinality(InTotal(m)') = Cardinality(InTotal(m)) + 1
      /\ Cardinality(InEntry(m, s)') = Cardinality(InEntry(m, s)) + 1
  <2>1. InTotal(m) \subseteq Conns /\ InEntry(m, s) \subseteq Conns
    BY DEF InTotal, InEntry
  <2>2. QED
    BY <1>1, <1>2, <2>1, Plus
<1>4. /\ \A n \in Limiters : current'[n] = IF n = m THEN current[m] + 1 ELSE current[n]
      /\ \A n \in Limiters, x \in Sources :
           per'[n][x] = IF n = m /\ x = s THEN per[m][s] + 1 ELSE per[n][x]
      /\ \A n \in Limiters : known[n] \subseteq known'[n]
      /\ s \in known'[m]
  BY DEF Count, Touch, LimitTypeOK
<1>5. CountsOK'
  <2>1. ASSUME NEW n \in Limiters
        PROVE  current'[n] = Cardinality(InTotal(n)')
    BY <1>1, <1>3, <1>4 DEF CountsOK
  <2>2. ASSUME NEW n \in Limiters, NEW x \in Sources
        PROVE  per'[n][x] = Cardinality(InEntry(n, x)') /\ (InEntry(n, x)' # {} => x \in known'[n])
    <3>1. per[n][x] = Cardinality(InEntry(n, x)) /\ (InEntry(n, x) # {} => x \in known[n])
      BY DEF CountsOK
    <3>2. CASE n = m /\ x = s
      BY <1>3, <1>4, <3>1, <3>2
    <3>3. CASE n # m \/ x # s
      BY <1>2, <1>4, <3>1, <3>3
    <3>4. QED
      BY <3>2, <3>3
  <2>3. QED
    BY <2>1, <2>2 DEF CountsOK
<1>6. Bounded'
  <2>1. MaxConnections[m] \in Nat /\ MaxPerSource[m] \in Nat /\ current[m] \in Nat /\ per[m][s] \in Nat
    BY LimiterAssumption DEF LimitTypeOK
  <2>2. current[m] + 1 <= MaxConnections[m] /\ per[m][s] + 1 <= MaxPerSource[m]
    BY <2>1 DEF Full
  <2>3. QED
    BY <1>4, <2>2 DEF Bounded
<1>7. QED
  BY <1>5, <1>6

----------------------------------------------------------------------------
(* One lemma per action.                                                   *)

\* Actions that touch neither a guard nor a counter: the registration of a
\* listener, its loop's start, the cancellation that drops its connections, a
\* connection's end, a loopback peer, a refusal, a slot that becomes free.
LEMMA QuietKeeps ==
  ASSUME LimitInv, LimitTypeOK', UNCHANGED <<current, per, held, giving>>,
         \A m \in Limiters : known[m] \subseteq known'[m],
         \A c \in Conns : /\ held[c] # {} => peer'[c] = peer[c]
                          /\ st'[c] = "free" => held[c] = {}
                          /\ st'[c] = "admit" => st[c] = "admit"
                          /\ st[c] = "closing" => st'[c] = "closing" \/ held[c] = {}
  PROVE  LimitInv'
<1>1. CountsOK'
  BY CountsKept DEF LimitInv
<1>2. GuardsOK'
  BY DEF LimitInv, GuardsOK
<1>3. Bounded'
  BY DEF LimitInv, Bounded
<1>4. QED
  BY <1>1, <1>2, <1>3 DEF LimitInv

\* A listener registers its own limits.
LEMMA ServeKeeps == ASSUME LimitInv, NEW l \in Listeners, Serve(l) PROVE LimitInv'
<1>1. registry' \in [Addrs -> Own \cup {NoLimiter}]
  BY LimiterAssumption DEF LimitInv, LimitTypeOK, Serve
<1>2. task' \in [Listeners -> {"down", "spawned", "up", "stopped"}]
  BY DEF LimitInv, LimitTypeOK, Serve
<1>3. LimitTypeOK'
  BY <1>1, <1>2 DEF LimitInv, LimitTypeOK, Serve, counts, slots
<1>4. QED
  BY <1>3, QuietKeeps DEF Serve, counts, slots, LimitInv, GuardsOK

\* A loop looks up its limiter.
LEMMA LoopStartKeeps == ASSUME LimitInv, NEW l \in Listeners, LoopStart(l) PROVE LimitInv'
<1>1. LimitTypeOK'
  BY LimiterAssumption DEF LimitInv, LimitTypeOK, LoopStart, counts, slots
<1>2. QED
  BY <1>1, QuietKeeps DEF LoopStart, counts, slots, LimitInv, GuardsOK

\* A cancelled loop drops its connections; their guards are still counted.
LEMMA StopKeeps == ASSUME LimitInv, NEW l \in Listeners, Stop(l) PROVE LimitInv'
<1>1. LimitTypeOK'
  BY DEF LimitInv, LimitTypeOK, Stop, counts
<1>2. QED
  BY <1>1, QuietKeeps DEF Stop, counts, LimitInv, GuardsOK

\* A connection ends; its guards are still counted.
LEMMA CloseKeeps == ASSUME LimitInv, NEW c \in Conns, Close(c) PROVE LimitInv'
<1>1. LimitTypeOK'
  BY DEF LimitInv, LimitTypeOK, Close, counts, setup
<1>2. QED
  BY <1>1, QuietKeeps DEF Close, counts, setup, LimitInv, LimitTypeOK, GuardsOK

\* A loopback peer passes uncounted.
LEMMA AcceptLoopbackKeeps ==
  ASSUME LimitInv, NEW c \in Conns, NEW l \in Listeners, NEW a \in Peers, AcceptLoopback(c, l, a)
  PROVE  LimitInv'
<1>1. LimitTypeOK'
  BY DEF LimitInv, LimitTypeOK, AcceptLoopback, counts, setup
<1>2. QED
  BY <1>1, QuietKeeps DEF AcceptLoopback, counts, setup, LimitInv, LimitTypeOK, GuardsOK

\* The global limiter refuses; the source may get an entry of zero.
LEMMA RefuseGlobalKeeps ==
  ASSUME LimitInv, NEW l \in Listeners, NEW a \in Peers, RefuseGlobal(l, a)
  PROVE  LimitInv'
<1>1. SourceKey(a) \in Sources
  BY DEF Sources
<1>2. LimitTypeOK'
  BY <1>1 DEF LimitInv, LimitTypeOK, RefuseGlobal, Touch, slots, setup
<1>3. QED
  BY <1>2, QuietKeeps DEF RefuseGlobal, Touch, slots, setup, LimitInv, LimitTypeOK, GuardsOK

\* The listener's limiter refuses; the global share is given back by the drop.
LEMMA RefuseKeeps == ASSUME LimitInv, NEW c \in Conns, Refuse(c) PROVE LimitInv'
<1>1. SourceKey(peer[c]) \in Sources
  BY DEF Sources, LimitInv, LimitTypeOK
<1>2. LimitTypeOK'
  BY <1>1 DEF LimitInv, LimitTypeOK, Refuse, Touch, setup
<1>3. QED
  BY <1>2, QuietKeeps DEF Refuse, Touch, setup, LimitInv, LimitTypeOK, GuardsOK

\* A slot without guards is free.
LEMMA EndKeeps == ASSUME LimitInv, NEW c \in Conns, End(c) PROVE LimitInv'
<1>1. AnyListener \in Listeners /\ AnyPeer \in Peers
  BY PeerAssumption DEF AnyListener, AnyPeer
<1>2. LimitTypeOK'
  BY <1>1 DEF LimitInv, LimitTypeOK, End, counts, setup
<1>3. QED
  BY <1>2, QuietKeeps DEF End, counts, setup, LimitInv, LimitTypeOK, GuardsOK

\* The guard of the global limiter.
LEMMA AcceptKeeps ==
  ASSUME LimitInv, NEW c \in Conns, NEW l \in Listeners, NEW a \in Peers, Accept(c, l, a)
  PROVE  LimitInv'
<1> DEFINE s == SourceKey(a)
<1>1. s \in Sources /\ Global \in Limiters /\ NoLimiter # Global
  BY LimiterAssumption DEF Sources, Limiters
<1>2. held[c] = {} /\ giving[c] = NoLimiter
  BY DEF LimitInv, GuardsOK, LimitTypeOK, Accept
<1>3. LimitTypeOK'
  <2>1. current' \in [Limiters -> Nat] /\ per' \in [Limiters -> [Sources -> Nat]]
    BY <1>1 DEF LimitInv, LimitTypeOK, Accept, Count
  <2>2. known' \in [Limiters -> SUBSET Sources] /\ held' \in [Conns -> SUBSET Limiters]
    BY <1>1 DEF LimitInv, LimitTypeOK, Accept, Touch
  <2>3. QED
    BY <2>1, <2>2 DEF LimitInv, LimitTypeOK, Accept, setup
<1>4. GuardsOK'
  BY <1>2 DEF LimitInv, LimitTypeOK, GuardsOK, Accept
<1>5. CountsOK' /\ Bounded'
  <2>1. SourceKey(peer'[c]) = s /\ \A d \in Conns : d # c => peer'[d] = peer[d]
    BY DEF LimitInv, LimitTypeOK, Accept
  <2>2. held' = [held EXCEPT ![c] = held[c] \cup {Global}]
    BY <1>2 DEF Accept
  <2>3. giving' = giving /\ ~Full(Global, s) /\ Touch(Global, s) /\ Count(Global, s)
    BY DEF Accept
  <2>4. QED
    BY <1>1, <1>2, <2>1, <2>2, <2>3, Counted DEF LimitInv
<1>6. QED
  BY <1>3, <1>4, <1>5 DEF LimitInv

\* The guard of the listener's own limiter, which is never the global one.
LEMMA AdmitKeeps == ASSUME LimitInv, NEW c \in Conns, Admit(c) PROVE LimitInv'
<1>1. CASE lim[via[c]] = NoLimiter
  <2>1. UNCHANGED <<counts, held, setup, via, peer, giving>> /\ st' = [st EXCEPT ![c] = "open"] /\ st[c] = "admit"
    BY <1>1 DEF Admit
  <2>2. LimitTypeOK'
    BY <2>1 DEF LimitInv, LimitTypeOK, counts, setup
  <2>3. QED
    BY <2>1, <2>2, QuietKeeps DEF counts, LimitInv, LimitTypeOK, GuardsOK
<1>2. CASE lim[via[c]] # NoLimiter
  <2>1. PICK m \in Own : m = lim[via[c]]
    BY <1>2 DEF LimitInv, LimitTypeOK
  <2>2. PICK s \in Sources : s = SourceKey(peer[c])
    BY DEF Sources, LimitInv, LimitTypeOK
  <2>3. m \in Limiters /\ m # Global /\ m # NoLimiter
    BY LimiterAssumption DEF Limiters
  <2>4. /\ st[c] = "admit" /\ ~Full(m, s) /\ Touch(m, s) /\ Count(m, s)
        /\ held' = [held EXCEPT ![c] = held[c] \cup {m}]
        /\ st' = [st EXCEPT ![c] = "open"]
        /\ UNCHANGED <<setup, via, peer, giving>>
    BY <2>1, <2>2, <2>3 DEF Admit
  <2>5. held[c] = {Global} /\ giving[c] = NoLimiter
    BY <2>4 DEF LimitInv, GuardsOK, LimitTypeOK
  <2>6. LimitTypeOK'
    <3>1. current' \in [Limiters -> Nat] /\ per' \in [Limiters -> [Sources -> Nat]]
      BY <2>3, <2>4 DEF LimitInv, LimitTypeOK, Count
    <3>2. known' \in [Limiters -> SUBSET Sources] /\ held' \in [Conns -> SUBSET Limiters]
      BY <2>3, <2>4 DEF LimitInv, LimitTypeOK, Touch
    <3>3. QED
      BY <2>4, <3>1, <3>2 DEF LimitInv, LimitTypeOK, setup
  <2>7. GuardsOK'
    BY <2>4, <2>5 DEF LimitInv, LimitTypeOK, GuardsOK
  <2>8. CountsOK' /\ Bounded'
    <3>1. SourceKey(peer'[c]) = s /\ \A d \in Conns : peer'[d] = peer[d]
      BY <2>2, <2>4
    <3>2. m \notin held[c] /\ giving[c] # m /\ giving' = giving
      BY <2>3, <2>4, <2>5
    <3>3. QED
      BY <2>3, <2>4, <3>1, <3>2, Counted DEF LimitInv
  <2>9. QED
    BY <2>6, <2>7, <2>8 DEF LimitInv
<1>3. QED
  BY <1>1, <1>2

\* The first half of a guard's drop: the atomic total.
LEMMA GiveTotalKeeps ==
  ASSUME LimitInv, NEW c \in Conns, NEW m \in Limiters, GiveTotal(c, m)
  PROVE  LimitInv'
<1>1. /\ InTotal(m)' = InTotal(m) \ {c} /\ c \in InTotal(m)
      /\ \A n \in Limiters : n # m => InTotal(n)' = InTotal(n)
      /\ \A n \in Limiters, s \in Sources : InEntry(n, s)' = InEntry(n, s)
  <2>1. m # NoLimiter /\ giving[c] = NoLimiter /\ m \in held[c] /\ held' = held /\ peer' = peer
    BY LimiterAssumption DEF GiveTotal
  <2>2. \A d \in Conns : giving'[d] = IF d = c THEN m ELSE giving[d]
    BY DEF GiveTotal, LimitInv, LimitTypeOK
  <2>3. \A n \in Limiters : n # NoLimiter
    BY LimiterAssumption
  <2>4. QED
    BY <2>1, <2>2, <2>3 DEF InTotal, InEntry
<1>2. /\ Cardinality(InTotal(m)') = Cardinality(InTotal(m)) - 1
      /\ Cardinality(InTotal(m)) \in Nat /\ Cardinality(InTotal(m)) >= 1
  <2>1. InTotal(m) \subseteq Conns
    BY DEF InTotal
  <2>2. QED
    BY <1>1, <2>1, Minus
<1>3. \A n \in Limiters : current'[n] = IF n = m THEN current[m] - 1 ELSE current[n]
  BY DEF GiveTotal, LimitInv, LimitTypeOK
<1>4. current[m] \in Nat /\ current[m] >= 1
  BY <1>2 DEF LimitInv, CountsOK
<1>5. LimitTypeOK'
  <2>1. current' \in [Limiters -> Nat]
    BY <1>4 DEF LimitInv, LimitTypeOK, GiveTotal
  <2>2. QED
    BY <2>1 DEF LimitInv, LimitTypeOK, GiveTotal, setup
<1>6. GuardsOK'
  BY DEF LimitInv, LimitTypeOK, GuardsOK, GiveTotal
<1>7. CountsOK'
  BY <1>1, <1>2, <1>3 DEF LimitInv, CountsOK, GiveTotal
<1>8. Bounded'
  <2>1. MaxConnections[m] \in Nat
    BY LimiterAssumption
  <2>2. current[m] - 1 <= MaxConnections[m]
    BY <1>4, <2>1 DEF LimitInv, Bounded
  <2>3. QED
    BY <1>3, <2>2 DEF LimitInv, Bounded, GiveTotal
<1>9. QED
  BY <1>5, <1>6, <1>7, <1>8 DEF LimitInv

\* The second half: the entry of the source, removed with its last connection.
LEMMA GiveSourceKeeps == ASSUME LimitInv, NEW c \in Conns, GiveSource(c) PROVE LimitInv'
<1>1. PICK m \in Limiters : m = giving[c]
  BY DEF GiveSource, LimitInv, LimitTypeOK
<1>2. PICK s \in Sources : s = SourceKey(peer[c])
  BY DEF Sources, LimitInv, LimitTypeOK
<1>3. m \in held[c] /\ st[c] = "closing" /\ m # NoLimiter
  BY <1>1, LimiterAssumption DEF LimitInv, GuardsOK
<1>4. /\ InEntry(m, s)' = InEntry(m, s) \ {c} /\ c \in InEntry(m, s)
      /\ \A n \in Limiters : InTotal(n)' = InTotal(n)
      /\ \A n \in Limiters, x \in Sources : n # m \/ x # s => InEntry(n, x)' = InEntry(n, x)
  <2>1. \A d \in Conns : held'[d] = IF d = c THEN held[c] \ {m} ELSE held[d]
    BY <1>1 DEF GiveSource, LimitInv, LimitTypeOK
  <2>2. \A d \in Conns : giving'[d] = IF d = c THEN NoLimiter ELSE giving[d]
    BY DEF GiveSource, LimitInv, LimitTypeOK
  <2>3. peer' = peer /\ \A n \in Limiters : n # NoLimiter
    BY LimiterAssumption DEF GiveSource
  <2>4. InEntry(m, s)' = InEntry(m, s) \ {c} /\ c \in InEntry(m, s)
    BY <1>2, <1>3, <2>1, <2>3 DEF InEntry
  <2>5. \A n \in Limiters : InTotal(n)' = InTotal(n)
    BY <1>1, <2>1, <2>2, <2>3 DEF InTotal
  <2>6. \A n \in Limiters, x \in Sources : n # m \/ x # s => InEntry(n, x)' = InEntry(n, x)
    BY <1>2, <2>1, <2>3 DEF InEntry
  <2>7. QED
    BY <2>4, <2>5, <2>6
<1>5. /\ Cardinality(InEntry(m, s)') = Cardinality(InEntry(m, s)) - 1
      /\ Cardinality(InEntry(m, s)) \in Nat /\ Cardinality(InEntry(m, s)) >= 1
      /\ Cardinality(InEntry(m, s)) = 1 => InEntry(m, s)' = {}
  <2>1. InEntry(m, s) \subseteq Conns
    BY DEF InEntry
  <2>2. QED
    BY <1>4, <2>1, Minus
<1>6. per[m][s] = Cardinality(InEntry(m, s)) /\ s \in known[m]
  BY <1>4 DEF LimitInv, CountsOK
<1>7. /\ per' = [per EXCEPT ![m][s] = IF per[m][s] = 1 THEN 0 ELSE @ - 1]
      /\ known' = IF per[m][s] = 1 THEN [known EXCEPT ![m] = @ \ {s}] ELSE known
  BY <1>1, <1>2, <1>6 DEF GiveSource, LastOf
<1>8. /\ \A n \in Limiters, x \in Sources :
           per'[n][x] = IF n = m /\ x = s THEN per[m][s] - 1 ELSE per[n][x]
      /\ \A n \in Limiters, x \in Sources :
           x \in known[n] /\ ~(n = m /\ x = s /\ per[m][s] = 1) => x \in known'[n]
  BY <1>5, <1>6, <1>7 DEF LimitInv, LimitTypeOK
<1>9. LimitTypeOK'
  <2>1. per' \in [Limiters -> [Sources -> Nat]]
    BY <1>5, <1>6, <1>7 DEF LimitInv, LimitTypeOK
  <2>2. known' \in [Limiters -> SUBSET Sources]
    BY <1>7 DEF LimitInv, LimitTypeOK
  <2>3. QED
    BY <2>1, <2>2 DEF LimitInv, LimitTypeOK, GiveSource, setup
<1>10. GuardsOK'
  BY <1>3 DEF LimitInv, LimitTypeOK, GuardsOK, GiveSource
<1>11. CountsOK'
  <2>1. ASSUME NEW n \in Limiters
        PROVE  current'[n] = Cardinality(InTotal(n)')
    BY <1>4 DEF LimitInv, CountsOK, GiveSource
  <2>2. ASSUME NEW n \in Limiters, NEW x \in Sources
        PROVE  per'[n][x] = Cardinality(InEntry(n, x)') /\ (InEntry(n, x)' # {} => x \in known'[n])
    <3>1. per[n][x] = Cardinality(InEntry(n, x)) /\ (InEntry(n, x) # {} => x \in known[n])
      BY DEF LimitInv, CountsOK
    <3>2. CASE n = m /\ x = s
      BY <1>4, <1>5, <1>6, <1>8, <3>2
    <3>3. CASE n # m \/ x # s
      BY <1>4, <1>8, <3>1, <3>3
    <3>4. QED
      BY <3>2, <3>3
  <2>3. QED
    BY <2>1, <2>2 DEF CountsOK
<1>12. Bounded'
  <2>1. MaxPerSource[m] \in Nat
    BY LimiterAssumption
  <2>2. per[m][s] - 1 <= MaxPerSource[m]
    BY <1>5, <1>6, <2>1 DEF LimitInv, Bounded
  <2>3. QED
    BY <1>8, <2>2 DEF LimitInv, Bounded, GiveSource
<1>13. QED
  BY <1>9, <1>10, <1>11, <1>12 DEF LimitInv

----------------------------------------------------------------------------

\* Every step keeps the invariant.
LEMMA LimitInductive == LimitInv /\ [LimitNext]_limitVars => LimitInv'
<1> SUFFICES ASSUME LimitInv, [LimitNext]_limitVars PROVE LimitInv'
  OBVIOUS
<1>1. CASE UNCHANGED limitVars
  <2>1. LimitTypeOK'
    BY <1>1 DEF limitVars, LimitInv, LimitTypeOK
  <2>2. QED
    BY <1>1, <2>1, QuietKeeps DEF limitVars, LimitInv, GuardsOK
<1>2. CASE \E l \in Listeners : Serve(l) \/ LoopStart(l) \/ Stop(l)
  BY <1>2, ServeKeeps, LoopStartKeeps, StopKeeps
<1>3. CASE Arrive
  BY <1>3, RefuseGlobalKeeps, AcceptLoopbackKeeps, AcceptKeeps DEF Arrive
<1>4. CASE \E c \in Conns : Admit(c) \/ Refuse(c) \/ Close(c) \/ Drop(c)
  BY <1>4, AdmitKeeps, RefuseKeeps, CloseKeeps, GiveSourceKeeps, EndKeeps, GiveTotalKeeps DEF Drop
<1>5. QED
  BY <1>1, <1>2, <1>3, <1>4 DEF LimitNext

\* The invariant holds in every behaviour.
LEMMA LimitAlways == LimitSpec => []LimitInv
BY LimitInitial, LimitInductive, PTL DEF LimitSpec

\* No counter is ever decremented below zero, for any limits and any number of
\* connections (ConnectionGuard::drop).
THEOREM LimitTypeCorrect == LimitSpec => []LimitTypeOK
<1>1. LimitInv => LimitTypeOK
  BY DEF LimitInv
<1>2. QED
  BY <1>1, LimitAlways, PTL

\* The atomic total counts the guards that have not given theirs back, although
\* it is decremented outside the lock of the map (acquire, drop).
THEOREM TotalExactHolds == LimitSpec => []TotalExact
<1>1. LimitInv => TotalExact
  <2>1. \A m \in Limiters : InTotal(m) = {c \in Sharing(m) : giving[c] # m}
    BY DEF InTotal, Sharing
  <2>2. QED
    BY <2>1 DEF LimitInv, CountsOK, TotalExact
<1>2. QED
  BY <1>1, LimitAlways, PTL

\* The connections of a client are those in the entry of its key.
LEMMA EntryOfClient ==
  ASSUME LimitTypeOK, NEW m \in Limiters, NEW a \in Peers
  PROVE  InEntry(m, SourceKey(a)) = {c \in Sharing(m) : SamePeer(peer[c], a)}
<1>1. \A c \in Conns : SamePeer(peer[c], a) <=> SourceKey(peer[c]) = SourceKey(a)
  BY KeyFaithful DEF LimitTypeOK
<1>2. QED
  BY <1>1 DEF InEntry, Sharing

\* The entry of a client counts its connections, whichever form its address
\* has, and is there as long as it has one (acquire, drop, SourceKey::from_ip).
THEOREM SourceExactHolds == LimitSpec => []SourceExact
<1>1. LimitInv => SourceExact
  <2> SUFFICES ASSUME LimitInv, NEW m \in Limiters, NEW a \in Peers
               PROVE  LET n == Cardinality({c \in Sharing(m) : SamePeer(peer[c], a)}) IN
                      per[m][SourceKey(a)] = n /\ (n > 0 => SourceKey(a) \in known[m])
    BY DEF SourceExact
  <2>1. PICK s \in Sources : s = SourceKey(a)
    BY DEF Sources
  <2>2. InEntry(m, s) = {c \in Sharing(m) : SamePeer(peer[c], a)}
    BY <2>1, EntryOfClient DEF LimitInv
  <2>3. per[m][s] = Cardinality(InEntry(m, s)) /\ (InEntry(m, s) # {} => s \in known[m])
    BY DEF LimitInv, CountsOK
  <2>4. Cardinality({}) = 0
    BY FS_EmptySet
  <2>5. QED
    BY <2>1, <2>2, <2>3, <2>4
<1>2. QED
  BY <1>1, LimitAlways, PTL

\* No limiter ever lets more connections pass than its two limits allow, in
\* total and from one client (acquire, drop).
THEOREM WithinLimitsHolds == LimitSpec => []WithinLimits
<1>1. LimitInv => WithinLimits
  <2> SUFFICES ASSUME LimitInv, NEW m \in Limiters
               PROVE  /\ Cardinality({c \in Sharing(m) : giving[c] # m}) <= MaxConnections[m]
                      /\ \A a \in Peers :
                           Cardinality({c \in Sharing(m) : SamePeer(peer[c], a)}) <= MaxPerSource[m]
    BY DEF WithinLimits
  <2>1. InTotal(m) = {c \in Sharing(m) : giving[c] # m}
    BY DEF InTotal, Sharing
  <2>2. Cardinality(InTotal(m)) <= MaxConnections[m]
    BY DEF LimitInv, CountsOK, Bounded
  <2>3. ASSUME NEW a \in Peers
        PROVE  Cardinality({c \in Sharing(m) : SamePeer(peer[c], a)}) <= MaxPerSource[m]
    <3>1. PICK s \in Sources : s = SourceKey(a)
      BY DEF Sources
    <3>2. InEntry(m, s) = {c \in Sharing(m) : SamePeer(peer[c], a)}
      BY <3>1, EntryOfClient DEF LimitInv
    <3>3. Cardinality(InEntry(m, s)) <= MaxPerSource[m]
      BY DEF LimitInv, CountsOK, Bounded
    <3>4. QED
      BY <3>2, <3>3
  <2>4. QED
    BY <2>1, <2>2, <2>3
<1>2. QED
  BY <1>1, LimitAlways, PTL
=============================================================================
