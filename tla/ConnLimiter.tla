---------------------------- MODULE ConnLimiter ----------------------------
(***************************************************************************)
(* Connection limits (server/limit.rs) and the accept loops that ask for   *)
(* them (server/tcp.rs, tls.rs, http.rs, https.rs, quic.rs): the global    *)
(* ConnectionLimiter, the limiters registered for listeners with their own *)
(* max-connections options, and the guards that give a connection's share  *)
(* back.  A guard's drop takes two steps: the total is an atomic counter   *)
(* outside the lock of the per-source map.                                 *)
(***************************************************************************)
EXTENDS Naturals, FiniteSets

CONSTANTS
  Listeners,   \* calls of serve for listeners that carry connections (bound)
  SockAddr,    \* the socket address of a listener
  Own,         \* the listeners with max-connections or max-connections-per-ip
  Global,      \* the process-wide limiter
  NoLimiter,
  MaxConnections,  \* max_connections of each limiter
  MaxPerSource,    \* max_per_source of each limiter
  Conns,       \* slots for accepted connections (bound)
  Peers,       \* addresses connections come from
  Loopback     \* the loopback addresses, in normalised form

Limiters == Own \cup {Global}
Addrs == {SockAddr[l] : l \in Listeners}

\* An address: an IPv4 host, the same host as ::ffff:a.b.c.d, whose first eight
\* bytes are zero, or an IPv6 host with its /64 network.
AddrShape(a) ==
  /\ a.kind \in {"v4", "mapped", "v6"}
  /\ a.kind # "v6" => a.net = 0

ASSUME LimiterAssumption ==
  /\ Own \subseteq Listeners
  /\ Global \notin Listeners /\ NoLimiter \notin Limiters
  /\ MaxConnections \in [Limiters -> Nat \ {0}]
  /\ MaxPerSource \in [Limiters -> Nat \ {0}]
  /\ SockAddr \in [Listeners -> Addrs]

ASSUME PeerAssumption ==
  /\ \A a \in Peers : a \in [kind : STRING, net : Nat, host : Nat] /\ AddrShape(a)
  /\ Peers # {} /\ Listeners # {}

ASSUME FiniteAssumption == IsFiniteSet(Conns)

----------------------------------------------------------------------------
(* Addresses.                                                              *)

Normalize(a) == IF a.kind = "mapped" THEN [a EXCEPT !.kind = "v4"] ELSE a

\* Mutant: a mapped address is keyed like any IPv6 address.
SourceKeyRaw(a) == IF a.kind = "v4" THEN a ELSE [kind |-> "v6", net |-> a.net, host |-> 0]

\* SourceKey::from_ip: an IPv4 host, or an IPv6 /64.
SourceKey(a) ==
  LET n == Normalize(a) IN
  IF n.kind = "v4" THEN n ELSE [kind |-> "v6", net |-> n.net, host |-> 0]

Sources == {SourceKey(a) : a \in Peers}

IsLoopback(a) == Normalize(a) \in Loopback

\* Reference: two addresses belong to one client machine or network.
SamePeer(a, b) ==
  IF a.kind = "v6" \/ b.kind = "v6" THEN a.kind = b.kind /\ a.net = b.net
  ELSE a.host = b.host

----------------------------------------------------------------------------

VARIABLES
  registry,  \* LISTENERS: the limiter registered for a socket address
  task,      \* a listener: "down", "spawned", "up" or "stopped"
  lim,       \* listener_limiter of a running accept loop
  current,   \* current of each limiter
  per,       \* per_source of each limiter: the count of a source
  known,     \* the sources that have an entry in per_source
  st,        \* a connection: "free", "admit", "open" or "closing"
  via,       \* the listener it came through
  peer,      \* the address it came from
  held,      \* the limiters whose counted guard it holds
  giving     \* the limiter whose total it has given back, the map entry not yet

\* What a free slot is set to.
AnyListener == CHOOSE l \in Listeners : TRUE
AnyPeer == CHOOSE a \in Peers : TRUE

counts == <<current, per, known>>
slots == <<st, via, peer, held, giving>>
setup == <<registry, task, lim>>
limitVars == <<registry, task, lim, current, per, known, st, via, peer, held, giving>>

LimitInit ==
  /\ registry = [a \in Addrs |-> NoLimiter]
  /\ task = [l \in Listeners |-> "down"]
  /\ lim = [l \in Listeners |-> NoLimiter]
  /\ current = [m \in Limiters |-> 0]
  /\ per = [m \in Limiters |-> [s \in Sources |-> 0]]
  /\ known = [m \in Limiters |-> {}]
  /\ st = [c \in Conns |-> "free"]
  /\ via = [c \in Conns |-> AnyListener]
  /\ peer = [c \in Conns |-> AnyPeer]
  /\ held = [c \in Conns |-> {}]
  /\ giving = [c \in Conns |-> NoLimiter]

\* server::serve registers the listener's own limits, then opens it, which may
\* fail, and spawns its loop.
Serve(l) ==
  /\ task[l] = "down"
  /\ registry' = IF l \in Own THEN [registry EXCEPT ![SockAddr[l]] = l] ELSE registry
  /\ \E t \in {"spawned", "stopped"} : task' = [task EXCEPT ![l] = t]
  /\ UNCHANGED <<lim, counts, slots>>

\* The loop looks its limiter up by socket address when it first runs.
LoopStart(l) ==
  /\ task[l] = "spawned"
  /\ lim' = [lim EXCEPT ![l] = registry[SockAddr[l]]]
  /\ task' = [task EXCEPT ![l] = "up"]
  /\ UNCHANGED <<registry, counts, slots>>

\* The loop awaits its next connection: it is not between the two limiters.
Awaiting(l) == task[l] = "up" /\ \A c \in Conns : via[c] = l => st[c] # "admit"

\* The token is cancelled: the loop leaves and its JoinSet drops the connections.
Stop(l) ==
  /\ Awaiting(l)
  /\ task' = [task EXCEPT ![l] = "stopped"]
  /\ st' = [c \in Conns |-> IF via[c] = l /\ st[c] = "open" THEN "closing" ELSE st[c]]
  /\ UNCHANGED <<registry, lim, counts, via, peer, held, giving>>

----------------------------------------------------------------------------
(* ConnectionLimiter::acquire, one critical section.                       *)

\* Mutant: off by one at both limits.
FullLate(m, s) == per[m][s] > MaxPerSource[m] \/ current[m] > MaxConnections[m]

Full(m, s) == per[m][s] >= MaxPerSource[m] \/ current[m] >= MaxConnections[m]

\* entry().or_insert(0) leaves an entry even when the connection is refused.
Touch(m, s) == known' = [known EXCEPT ![m] = @ \cup {s}]

Count(m, s) ==
  /\ per' = [per EXCEPT ![m][s] = @ + 1]
  /\ current' = [current EXCEPT ![m] = @ + 1]

\* An accepted connection; loopback peers pass with guards that count nothing.
AcceptLoopback(c, l, a) ==
  /\ Awaiting(l) /\ st[c] = "free" /\ IsLoopback(a)
  /\ st' = [st EXCEPT ![c] = "open"]
  /\ via' = [via EXCEPT ![c] = l]
  /\ peer' = [peer EXCEPT ![c] = a]
  /\ UNCHANGED <<setup, counts, held, giving>>

Accept(c, l, a) ==
  LET s == SourceKey(a) IN
  /\ Awaiting(l) /\ st[c] = "free" /\ ~IsLoopback(a)
  /\ ~Full(Global, s)
  /\ Touch(Global, s) /\ Count(Global, s)
  /\ st' = [st EXCEPT ![c] = "admit"]
  /\ via' = [via EXCEPT ![c] = l]
  /\ peer' = [peer EXCEPT ![c] = a]
  /\ held' = [held EXCEPT ![c] = {Global}]
  /\ UNCHANGED <<setup, giving>>

RefuseGlobal(l, a) ==
  LET s == SourceKey(a) IN
  /\ Awaiting(l) /\ ~IsLoopback(a)
  /\ Full(Global, s)
  /\ Touch(Global, s)
  /\ UNCHANGED <<setup, current, per, slots>>

\* The listener's own limiter, if its loop has one.
Admit(c) ==
  LET m == lim[via[c]]
      s == SourceKey(peer[c]) IN
  /\ st[c] = "admit"
  /\ IF m = NoLimiter
     THEN UNCHANGED <<counts, held>>
     ELSE /\ ~Full(m, s)
          /\ Touch(m, s) /\ Count(m, s)
          /\ held' = [held EXCEPT ![c] = @ \cup {m}]
  /\ st' = [st EXCEPT ![c] = "open"]
  /\ UNCHANGED <<setup, via, peer, giving>>

\* Mutant: the connection is dropped, its global share is not given back.
RefuseLeaks(c) ==
  LET m == lim[via[c]]
      s == SourceKey(peer[c]) IN
  /\ st[c] = "admit" /\ m # NoLimiter
  /\ Full(m, s)
  /\ Touch(m, s)
  /\ st' = [st EXCEPT ![c] = "free"]
  /\ held' = [held EXCEPT ![c] = {}]
  /\ UNCHANGED <<setup, current, per, via, peer, giving>>

Refuse(c) ==
  LET m == lim[via[c]]
      s == SourceKey(peer[c]) IN
  /\ st[c] = "admit" /\ m # NoLimiter
  /\ Full(m, s)
  /\ Touch(m, s)
  /\ st' = [st EXCEPT ![c] = "closing"]
  /\ UNCHANGED <<setup, current, per, via, peer, held, giving>>

\* The peer, an error or a timeout ends the connection.
Close(c) ==
  /\ st[c] = "open"
  /\ st' = [st EXCEPT ![c] = "closing"]
  /\ UNCHANGED <<setup, counts, via, peer, held, giving>>

----------------------------------------------------------------------------
(* ConnectionGuard::drop.                                                  *)

GiveTotal(c, m) ==
  /\ st[c] = "closing" /\ giving[c] = NoLimiter /\ m \in held[c]
  /\ current' = [current EXCEPT ![m] = @ - 1]
  /\ giving' = [giving EXCEPT ![c] = m]
  /\ UNCHANGED <<setup, per, known, st, via, peer, held>>

\* Mutant: the entry is removed with the first connection that ends.
LastOfEarly(m, s) == per[m][s] > 0

\* The last connection of a source takes the map entry with it.
LastOf(m, s) == per[m][s] = 1

GiveSource(c) ==
  LET m == giving[c]
      s == SourceKey(peer[c]) IN
  /\ m # NoLimiter
  /\ IF s \in known[m]
     THEN /\ per' = [per EXCEPT ![m][s] = IF LastOf(m, s) THEN 0 ELSE @ - 1]
          /\ known' = IF LastOf(m, s) THEN [known EXCEPT ![m] = @ \ {s}] ELSE known
     ELSE UNCHANGED <<per, known>>
  /\ held' = [held EXCEPT ![c] = @ \ {m}]
  /\ giving' = [giving EXCEPT ![c] = NoLimiter]
  /\ UNCHANGED <<setup, current, st, via, peer>>

\* The guards are gone and the slot is free.
End(c) ==
  /\ st[c] = "closing" /\ held[c] = {}
  /\ st' = [st EXCEPT ![c] = "free"]
  /\ via' = [via EXCEPT ![c] = AnyListener]
  /\ peer' = [peer EXCEPT ![c] = AnyPeer]
  /\ UNCHANGED <<setup, counts, held, giving>>

----------------------------------------------------------------------------

Arrive ==
  \E l \in Listeners, a \in Peers :
    \/ RefuseGlobal(l, a)
    \/ \E c \in Conns : AcceptLoopback(c, l, a) \/ Accept(c, l, a)

Drop(c) == GiveSource(c) \/ End(c) \/ \E m \in Limiters : GiveTotal(c, m)

LimitNext ==
  \/ \E l \in Listeners : Serve(l) \/ LoopStart(l) \/ Stop(l)
  \/ Arrive
  \/ \E c \in Conns : Admit(c) \/ Refuse(c) \/ Close(c) \/ Drop(c)

LimitSpec == LimitInit /\ [][LimitNext]_limitVars

----------------------------------------------------------------------------
(* Properties.                                                             *)

\* Every variable has its type; for the counters this says that neither the
\* atomic total nor a source's count is ever decremented below zero (drop).
LimitTypeOK ==
  /\ registry \in [Addrs -> Own \cup {NoLimiter}]
  /\ task \in [Listeners -> {"down", "spawned", "up", "stopped"}]
  /\ lim \in [Listeners -> Own \cup {NoLimiter}]
  /\ current \in [Limiters -> Nat]
  /\ per \in [Limiters -> [Sources -> Nat]]
  /\ known \in [Limiters -> SUBSET Sources]
  /\ st \in [Conns -> {"free", "admit", "open", "closing"}]
  /\ via \in [Conns -> Listeners]
  /\ peer \in [Conns -> Peers]
  /\ held \in [Conns -> SUBSET Limiters]
  /\ giving \in [Conns -> Limiters \cup {NoLimiter}]

\* The connections that hold a share of limiter m.
Sharing(m) == {c \in Conns : m \in held[c]}

\* The limits hold at every moment: a connection that is being admitted or
\* served is one of at most max_connections, and of at most max_per_source
\* from its source, of every limiter it passed (acquire, drop).
WithinLimits ==
  \A m \in Limiters :
    /\ Cardinality({c \in Sharing(m) : giving[c] # m}) <= MaxConnections[m]
    /\ \A a \in Peers :
         Cardinality({c \in Sharing(m) : SamePeer(peer[c], a)}) <= MaxPerSource[m]

\* The totals are exact: current counts the guards whose drop has not given
\* theirs back, so no interleaving of refusals and drops leaks a share.
TotalExact ==
  \A m \in Limiters : current[m] = Cardinality({c \in Sharing(m) : giving[c] # m})

\* The shares of a source are exact and nobody else's: its map entry counts
\* the connections of that client, whichever form its address has, so one
\* client's connections never use up another's allowance.
SourceExact ==
  \A m \in Limiters, a \in Peers :
    LET n == Cardinality({c \in Sharing(m) : SamePeer(peer[c], a)}) IN
    /\ per[m][SourceKey(a)] = n
    /\ n > 0 => SourceKey(a) \in known[m]

\* A listener is limited by its own options or by none but the global ones:
\* what the comments of serve and for_listener say of the registry.  It does
\* not hold: the registry is keyed by socket address, which a QUIC or HTTP/3
\* listener shares with the TLS or HTTPS listener of the same port.
OwnLimits == \A l \in Listeners : lim[l] \in {l, NoLimiter}
=============================================================================
