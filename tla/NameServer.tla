----------------------------- MODULE NameServer -----------------------------
(***************************************************************************)
(* NameServerMiddleware::handle (dns_mw_ns.rs) with the upstream race it   *)
(* runs (lookup_ip, lookup_ip_with, dns_client.rs: NameServerGroup::lookup,*)
(* race_servers, pick_best) and the exchange with one server               *)
(* (NameServer::lookup with its TCP leg).  Concurrent queries with one     *)
(* folding key share one lookup; the lookup asks the ordinary servers at   *)
(* once, the fallback servers only when those gave no conclusive answer,   *)
(* and is cut off after five seconds.                                      *)
(*                                                                         *)
(* The module follows one folding key: entries of the inflight map are     *)
(* independent.  Elapsed time appears as the three timers that may fire:   *)
(* the gather timeout, a speed test's deadline and the five seconds.       *)
(***************************************************************************)
EXTENDS Integers, Sequences, FiniteSets

CONSTANTS
  Queries,     \* the tasks that run `handle` with this folding key
  Nobody,      \* "no sender in the inflight map"
  Servers,     \* the servers of the group
  Fallback,    \* the servers with -fallback
  Udp,         \* the servers reached over UDP, which have a TCP leg
  Addresses,   \* the addresses answers may hold
  Answers,     \* what a server may reply, as members of Replies
  Strategies   \* response modes under check; "Other" is a query for no address

\* A reply: code stands for the response code with the presence of answers and
\* of a SOA record, "err" for a failed exchange, "timeout" for the five seconds.
Rank == [answer |-> 0, nodataSoa |-> 1, nodata |-> 2, nxSoa |-> 3, nx |-> 4, other |-> 5]
Replies == [code : DOMAIN Rank, tc : BOOLEAN, ips : SUBSET Addresses]
Failure(why) == [code |-> why, tc |-> FALSE, ips |-> {}]
Outcomes == Replies \cup {Failure("err"), Failure("timeout"), Failure("none")}
None == Failure("none")

ASSUME ServerAssumption ==
  /\ IsFiniteSet(Servers) /\ Servers # {}
  /\ Fallback \subseteq Servers /\ Udp \subseteq Servers
  /\ Nobody \notin Queries
  /\ Answers \subseteq Replies \cup {Failure("err")}
  /\ Strategies \subseteq {"FirstPing", "FastestIp", "FastestResponse", "Other"}

VARIABLES
  strategy,   \* response_strategy after -no-speed-check and none
  at,         \* where each query is in `handle`
  sender,     \* the query whose sender is in the map
  outcome,    \* what each query returned last
  round,      \* the lookup: "off", "primary", "fallback", "choose", "done"
  leg,        \* the exchange with each server: "off", "udp", "tcp", "retry"
  half,       \* the truncated reply the TCP leg is to complete
  seen,       \* ok_tasks and err_tasks (held), in the order of arrival
  tests,      \* FirstPing: positions in seen whose addresses are being tested
  first,      \* what the ordinary servers gave
  second,     \* what the fallback servers gave
  knew        \* history: codes of the ordinary servers' replies, "cut" if truncated

race == <<round, leg, half, seen, tests, first, second, knew>>
lookupVars == <<strategy, at, sender, outcome, race>>

Ordinary == IF Fallback = Servers THEN Servers ELSE Servers \ Fallback
Spare == Servers \ Ordinary

Idle == [s \in Servers |-> "off"]
Blank == [s \in Servers |-> None]

LookupInit ==
  /\ strategy \in Strategies
  /\ at = [q \in Queries |-> "idle"]
  /\ sender = Nobody
  /\ outcome = [q \in Queries |-> None]
  /\ round = "off"
  /\ leg = Idle /\ half = Blank
  /\ seen = <<>> /\ tests = {}
  /\ first = None /\ second = None
  /\ knew = {}

----------------------------------------------------------------------------
(* Judging replies.                                                        *)

Ok(r) == r.code \in DOMAIN Rank

\* Mutant: a bare NXDOMAIN is taken at its word.
ConclusiveNx(r) == Ok(r) /\ ~r.tc /\ r.code \in {"answer", "nxSoa", "nx"}

\* is_conclusive: good enough not to wait for the others.
Conclusive(r) == Ok(r) /\ ~r.tc /\ r.code \in {"answer", "nxSoa"}

\* min_by_key(response_rank): the first of the most credible replies at I.
Best(s, I) ==
  s[CHOOSE i \in I : \A j \in I :
      Rank[s[i].code] < Rank[s[j].code] \/ (Rank[s[i].code] = Rank[s[j].code] /\ i <= j)]

Earliest(s, I) == s[CHOOSE i \in I : \A j \in I : i <= j]

FirstFailure(s) == IF s = <<>> THEN Failure("timeout") ELSE s[1]

\* pick_best: truncated replies are kept apart unless they came last.
PickBest(s) ==
  LET ok == {i \in DOMAIN s : Ok(s[i]) /\ (i = Len(s) \/ ~s[i].tc)}
      cut == {i \in DOMAIN s : s[i].tc}
  IN IF ok # {} THEN Best(s, ok) ELSE IF cut # {} THEN Earliest(s, cut) ELSE FirstFailure(s)

\* Mutant: the errors are looked at before the replies.
FallenErrorFirst(s) ==
  LET bad == {i \in DOMAIN s : ~Ok(s[i])} IN
  IF bad # {} THEN Earliest(s, bad)
  ELSE IF s = <<>> THEN Failure("timeout") ELSE Best(s, DOMAIN s)

\* The selection below the response modes of lookup_ip_with.
Fallen(s) ==
  LET ok == {i \in DOMAIN s : Ok(s[i])} IN IF ok # {} THEN Best(s, ok) ELSE FirstFailure(s)

AllIps(s) == UNION {s[i].ips : i \in DOMAIN s}

\* The addresses most replies agree on: what is left when no test succeeded.
Frequent(s) ==
  LET count(ip) == Cardinality({i \in DOMAIN s : ip \in s[i].ips}) IN
  {ip \in AllIps(s) : \A o \in AllIps(s) : count(o) <= count(ip)}

\* The first reply that holds the chosen address, without its other addresses.
Selected(s, ip) ==
  [Earliest(s, {i \in DOMAIN s : ip \in s[i].ips}) EXCEPT !.ips = {ip}]

----------------------------------------------------------------------------
(* Rounds of the lookup.                                                   *)

\* A round asks its servers at once.
Ask(servers) ==
  /\ leg' = [s \in Servers |-> IF s \in servers THEN "udp" ELSE "off"]
  /\ half' = Blank
  /\ seen' = <<>> /\ tests' = {}

\* Dropping the futures of a round ends all its exchanges and tests.
Dropped ==
  /\ leg' = Idle /\ half' = Blank
  /\ seen' = <<>> /\ tests' = {}

Done(result) ==
  /\ round' = "done"
  /\ first' = result
  /\ second' = None
  /\ Dropped

\* needs_fallback.
WantsFallback(r) == ~Conclusive(r)

\* A round has its result: the ordinary servers' may call for the fallback
\* servers, the fallback servers' is compared with it.
EndRound(result) ==
  IF round = "fallback"
  THEN /\ round' = "choose" /\ second' = result /\ UNCHANGED first /\ Dropped
  ELSE IF Spare # {} /\ WantsFallback(result)
  THEN /\ round' = "fallback" /\ first' = result /\ UNCHANGED second /\ Ask(Spare)
  ELSE Done(result)

\* Second round no better: keep the first.
Choose ==
  /\ round = "choose"
  /\ round' = "done"
  /\ first' = IF WantsFallback(second) THEN first ELSE second
  /\ UNCHANGED <<strategy, at, sender, outcome, leg, half, seen, tests, second, knew>>

\* No test named an address: one that most replies hold, else any reply.
Untested(s) ==
  IF AllIps(s) = {} THEN EndRound(Fallen(s))
  ELSE \E ip \in Frequent(s) : EndRound(Selected(s, ip))

Flying == round \in {"primary", "fallback"}

\* The lookup goes on with what it has; nothing of the round ends.
Wait(s, r) ==
  /\ leg' = [leg EXCEPT ![s] = "off"]
  /\ half' = [half EXCEPT ![s] = None]
  /\ seen' = Append(seen, r)
  /\ UNCHANGED <<round, first, second>>

\* A server's reply reaches the race.
Arrive(s, r) ==
  LET all == Append(seen, r)
      others == \E o \in Servers \ {s} : leg[o] # "off"
      tested == IF r.ips # {} THEN tests \cup {Len(all)} ELSE tests
  IN /\ knew' = IF round = "primary" /\ Ok(r)
                THEN knew \cup {IF r.tc THEN "cut" ELSE r.code} ELSE knew
     /\ CASE strategy = "Other" ->
               IF Conclusive(r) THEN EndRound(r)
               ELSE IF others THEN Wait(s, r) /\ UNCHANGED tests
               ELSE EndRound(PickBest(all))
          [] strategy = "FastestResponse" ->
               IF r.code = "answer" THEN EndRound(r)
               ELSE IF others THEN Wait(s, r) /\ UNCHANGED tests
               ELSE EndRound(Fallen(all))
          [] strategy = "FirstPing" ->
               IF others \/ tested # {} THEN Wait(s, r) /\ tests' = tested
               ELSE Untested(all)
          [] strategy = "FastestIp" ->
               IF others \/ AllIps(all) # {} THEN Wait(s, r) /\ UNCHANGED tests
               ELSE EndRound(Fallen(all))
     /\ UNCHANGED <<strategy, at, sender, outcome>>

----------------------------------------------------------------------------
(* NameServer::lookup, per server.                                         *)

\* Truncation over UDP is retried over TCP with the same server.
Reply(s, r) ==
  /\ Flying /\ leg[s] = "udp"
  /\ IF r.tc /\ s \in Udp
     THEN /\ leg' = [leg EXCEPT ![s] = "tcp"]
          /\ half' = [half EXCEPT ![s] = r]
          /\ UNCHANGED <<strategy, at, sender, outcome, round, seen, tests, first, second, knew>>
     ELSE Arrive(s, r)

\* What comes over TCP is the server's reply, truncated or not.
TcpReply(s, r) ==
  /\ Flying /\ leg[s] \in {"tcp", "retry"}
  /\ Ok(r)
  /\ Arrive(s, r)

\* The TCP leg fails or exceeds its budget: once more, then the half answer.
TcpFails(s) ==
  /\ Flying
  /\ \/ /\ leg[s] = "tcp"
        /\ leg' = [leg EXCEPT ![s] = "retry"]
        /\ UNCHANGED <<strategy, at, sender, outcome, round, half, seen, tests, first, second, knew>>
     \/ /\ leg[s] = "retry"
        /\ Arrive(s, half[s])

----------------------------------------------------------------------------
(* Speed tests.  A test names an address that answered or none (SpeedTest).*)

\* FirstPing: the first address that answers wins; a test without result
\* ends the round only if nothing else is under way.
TestHits(i, ip) ==
  /\ Flying /\ strategy = "FirstPing" /\ i \in tests /\ ip \in seen[i].ips
  /\ EndRound(Selected(seen, ip))
  /\ UNCHANGED <<strategy, at, sender, outcome, knew>>

TestMisses(i) ==
  /\ Flying /\ strategy = "FirstPing" /\ i \in tests
  /\ IF tests # {i} \/ \E s \in Servers : leg[s] # "off"
     THEN /\ tests' = tests \ {i}
          /\ UNCHANGED <<round, leg, half, seen, first, second>>
     ELSE Untested(seen)
  /\ UNCHANGED <<strategy, at, sender, outcome, knew>>

\* FastestIp: one test of everything gathered when all have replied or 800 ms
\* have passed.
GatherEnds(ip) ==
  /\ Flying /\ strategy = "FastestIp"
  /\ ip \in AllIps(seen)
  /\ EndRound(Selected(seen, ip))
  /\ UNCHANGED <<strategy, at, sender, outcome, knew>>

GatherEmpty ==
  /\ Flying /\ strategy = "FastestIp"
  /\ AllIps(seen) = {}
  /\ EndRound(Fallen(seen))
  /\ UNCHANGED <<strategy, at, sender, outcome, knew>>

----------------------------------------------------------------------------
(* handle: the inflight map around the lookup.                             *)

Lead(q) ==
  /\ at[q] = "idle" /\ sender = Nobody
  /\ sender' = q
  /\ at' = [at EXCEPT ![q] = "lead"]
  /\ outcome' = [outcome EXCEPT ![q] = None]
  /\ round' = "primary"
  /\ Ask(Ordinary)
  /\ first' = None /\ second' = None /\ knew' = {}
  /\ UNCHANGED strategy

Join(q) ==
  /\ at[q] = "idle" /\ sender # Nobody
  /\ at' = [at EXCEPT ![q] = "wait"]
  /\ outcome' = [outcome EXCEPT ![q] = None]
  /\ UNCHANGED <<strategy, sender, race>>

\* Mutant: the sender is removed from the map without a word to the receivers.
ToldNobody == {q \in Queries : at[q] = "lead"}

\* The queries a broadcast ends: the leader and everybody who has a receiver.
Told == {q \in Queries : at[q] # "idle"}

\* Under the inflight lock the sender is removed and the outcome broadcast.
Land(r) ==
  /\ sender' = Nobody
  /\ outcome' = [q \in Queries |-> IF q \in Told THEN r ELSE outcome[q]]
  /\ at' = [q \in Queries |-> IF q \in Told THEN "idle" ELSE at[q]]
  /\ round' = "off"
  /\ first' = None /\ second' = None /\ knew' = {}
  /\ Dropped
  /\ UNCHANGED strategy

Publish == round = "done" /\ Land(first)

\* Mutant: the lookup is not bounded in time.
Unbounded == FALSE /\ UNCHANGED lookupVars

\* Five seconds are over: the lookup is dropped.
Cut ==
  /\ Flying \/ round = "choose"
  /\ Done(Failure("timeout"))
  /\ UNCHANGED <<strategy, at, sender, outcome, knew>>

\* The leading task panics or is dropped: InflightNsGuard speaks for it.
Abort == round # "off" /\ Land(Failure("err"))

----------------------------------------------------------------------------

ServerStep ==
  \E s \in Servers :
    \/ \E r \in Answers : Reply(s, r) \/ TcpReply(s, r)
    \/ TcpFails(s)

TestStep ==
  \/ \E i \in 1 .. Cardinality(Servers) : TestMisses(i) \/ \E ip \in Addresses : TestHits(i, ip)
  \/ \E ip \in Addresses : GatherEnds(ip)
  \/ GatherEmpty

LookupNext ==
  \/ \E q \in Queries : Lead(q) \/ Join(q)
  \/ ServerStep
  \/ TestStep
  \/ Choose
  \/ Cut
  \/ Publish
  \/ Abort

LookupSpec == LookupInit /\ [][LookupNext]_lookupVars

----------------------------------------------------------------------------
(* Properties.                                                             *)

\* Every part of the state keeps its range; exchanges are open only while a
\* round is, and never with a server of the other round.
LookupTypeOK ==
  /\ at \in [Queries -> {"idle", "lead", "wait"}]
  /\ sender \in Queries \cup {Nobody}
  /\ outcome \in [Queries -> Outcomes]
  /\ round \in {"off", "primary", "fallback", "choose", "done"}
  /\ leg \in [Servers -> {"off", "udp", "tcp", "retry"}]
  /\ half \in [Servers -> Outcomes]
  /\ Len(seen) <= Cardinality(Servers)
  /\ tests \subseteq DOMAIN seen
  /\ \A s \in Servers : leg[s] # "off" =>
       round = (IF s \in Ordinary THEN "primary" ELSE "fallback")

\* A complete answer of an ordinary server is never lost: unless the five
\* seconds ran out the lookup ends with an answer, whatever the other servers
\* said before or after, in whichever order, and whatever the tests found.
\* Truncated replies are the exception: when an address of one is chosen, the
\* reply is not conclusive, and a negative reply of a fallback server replaces
\* it although a complete answer had come.
AnswerKept ==
  round = "done" /\ first.code # "timeout" /\ "answer" \in knew /\ "cut" \notin knew
    => first.code = "answer"

\* A bare NXDOMAIN, which anybody on the path can forge, is the result only
\* when no ordinary server had anything complete and better to say.
NxUnopposed ==
  round = "done" /\ first.code = "nx" => knew \subseteq {"nx", "other", "cut"}

Flight == INSTANCE Folding WITH
  Flights <- {"key"}, Tasks <- Queries, NoTask <- Nobody,
  leader <- [f \in {"key"} |-> sender],
  joined <- [f \in {"key"} |-> {q \in Queries : at[q] = "wait"}]

\* Concurrent queries with one folding key share one lookup: one leads, the
\* others join, and the end of the lookup, however it ends, releases them all.
LookupFolds == Flight!Spec

\* Every query gets an outcome although servers may never reply and tests may
\* never end: the five seconds are enough.
QueriesReleased == \A q \in Queries : at[q] # "idle" ~> at[q] = "idle"
=============================================================================
