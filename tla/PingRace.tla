------------------------------ MODULE PingRace ------------------------------
(***************************************************************************)
(* dynamic_tier_ping (dns_mw_ns.rs): all candidate addresses are probed at *)
(* once, several probes each; the race ends as soon as one address reaches *)
(* the best score still within reach, or at the deadline.  Probes of all   *)
(* addresses come back in any order.                                       *)
(*                                                                         *)
(* The list of candidates is a reply's, not deduplicated, and may name an  *)
(* address several times: each mention has its probes and its IpState, but *)
(* what comes back is credited to the first state of the address (find).   *)
(* The counters here are those of first states; the others stay at zero.   *)
(* Arithmetic on u8 wraps, as in a release build.                          *)
(***************************************************************************)
EXTENDS Integers

CONSTANTS
  Ips,         \* the candidate addresses of the tested mode
  MaxCopies,   \* bound on how often the list names one address
  Pings,       \* PINGS_PER_IP
  Latencies,   \* elapsed times of a probe, in milliseconds
  Penalty,     \* what a missing answer costs in a score, in milliseconds
  Racing, NoIp

ASSUME RaceAssumption ==
  /\ Ips # {}
  /\ MaxCopies \in Nat \ {0}
  /\ Pings \in 1 .. 255          \* a u8
  /\ Latencies \subseteq Nat
  /\ Penalty \in Nat
  /\ Racing \notin Ips /\ NoIp \notin Ips /\ Racing # NoIp

VARIABLES
  copies,   \* how often the list names each address
  due,      \* probes of each address that are still under way
  hits,     \* IpState.successes
  misses,   \* IpState.failures
  sum,      \* IpState.sum_latency
  least,    \* IpState.min_latency (0 while there is none)
  target,   \* target_score: the best number of answers anybody can still reach
  verdict   \* Racing while the race runs, then the chosen address or NoIp

raceVars == <<copies, due, hits, misses, sum, least, target, verdict>>

\* The list names no address twice.
Distinct == \A i \in Ips : copies[i] = 1

\* Mutant: one probe too many (0..=PINGS_PER_IP).
SentOneMore(n) == (Pings + 1) * n

\* The probes sent to an address that is named n times.
Sent(n) == Pings * n

RaceInit ==
  /\ copies \in [Ips -> 1 .. MaxCopies]
  /\ due = [i \in Ips |-> Sent(copies[i])]
  /\ hits = [i \in Ips |-> 0]
  /\ misses = [i \in Ips |-> 0]
  /\ sum = [i \in Ips |-> 0]
  /\ least = [i \in Ips |-> 0]
  /\ target = Pings
  /\ verdict = Racing

Wrap(n) == n % 256   \* u8

\* Probes of this address are still under way.
Outstanding(i) == due[i] > 0

\* IpState::score of an address that has answered h times.
Score(h, total, best) == ((total \div h) + best) \div 2 + Penalty * (Pings - h)

\* The verdict, given what is known of every address after this probe: one of
\* the addresses with the least score among those that answered at all.
Winner(h, total, best, i) ==
  /\ h[i] > 0
  /\ \A j \in Ips : h[j] > 0 => Score(h[i], total[i], best[i]) <= Score(h[j], total[j], best[j])

Settle(h, total, best) == \E i \in Ips : Winner(h, total, best, i) /\ verdict' = i

\* A probe comes back in time.
Pong(i, ms) ==
  /\ verdict = Racing
  /\ Outstanding(i)
  /\ due' = [due EXCEPT ![i] = @ - 1]
  /\ hits' = [hits EXCEPT ![i] = Wrap(@ + 1)]
  /\ sum' = [sum EXCEPT ![i] = @ + ms]
  /\ least' = [least EXCEPT ![i] = IF hits[i] = 0 \/ ms < @ THEN ms ELSE @]
  /\ IF hits'[i] = target
     THEN Settle(hits', sum', least')
     ELSE verdict' = Racing
  /\ UNCHANGED <<copies, misses, target>>

\* What each state can still reach when the first ones have lost m probes: the
\* state of a second mention loses none.
Remaining(m) ==
  {Wrap(Pings - m[j]) : j \in Ips} \cup (IF Distinct THEN {} ELSE {Pings})

Reach(m) == CHOOSE n \in Remaining(m) : \A k \in Remaining(m) : n >= k

\* Mutant: an address that has just the new target does not count.
ReachedBeyond(n) == \E j \in Ips : hits[j] > n

Reached(n) == \E j \in Ips : hits[j] >= n

\* A probe fails: the target is lowered to what is still within reach, and
\* somebody may have reached it already.
Lost(i) ==
  /\ verdict = Racing
  /\ Outstanding(i)
  /\ due' = [due EXCEPT ![i] = @ - 1]
  /\ misses' = [misses EXCEPT ![i] = Wrap(@ + 1)]
  /\ target' = IF Reach(misses') < target THEN Reach(misses') ELSE target
  /\ IF target' < target /\ target' = 0 THEN verdict' = NoIp
     ELSE IF target' < target /\ Reached(target') THEN Settle(hits, sum, least)
     ELSE verdict' = Racing
  /\ UNCHANGED <<copies, hits, sum, least>>

\* Mutant: what came back before the deadline is forgotten.
DeadlineForgets ==
  /\ verdict = Racing /\ verdict' = NoIp
  /\ UNCHANGED <<copies, due, hits, misses, sum, least, target>>

\* 600 ms have passed: the best address so far, if there is one.
Deadline ==
  /\ verdict = Racing
  /\ IF \E i \in Ips : hits[i] > 0 THEN Settle(hits, sum, least) ELSE verdict' = NoIp
  /\ UNCHANGED <<copies, due, hits, misses, sum, least, target>>

\* All probes are back and nobody has reached the target: the None behind the
\* loop of race_logic.
RunDry ==
  /\ verdict = Racing
  /\ \A i \in Ips : ~Outstanding(i)
  /\ verdict' = NoIp
  /\ UNCHANGED <<copies, due, hits, misses, sum, least, target>>

RaceNext ==
  \/ \E i \in Ips : Lost(i) \/ \E ms \in Latencies : Pong(i, ms)
  \/ Deadline \/ RunDry

RaceSpec == RaceInit /\ [][RaceNext]_raceVars

----------------------------------------------------------------------------
(* Properties.                                                             *)

\* Every counter keeps its range.  Only where the list names no address twice are
\* the probes of an address counted at most as often as they were sent, so that
\* PINGS_PER_IP - failures does not wrap.
RaceTypeOK ==
  /\ copies \in [Ips -> 1 .. MaxCopies] /\ due \in [Ips -> Nat]
  /\ hits \in [Ips -> 0 .. Pings] /\ misses \in [Ips -> 0 .. 255]
  /\ Distinct => \A i \in Ips : hits[i] + misses[i] <= Pings
  /\ sum \in [Ips -> Nat] /\ least \in [Ips -> Nat]
  /\ target \in 0 .. Pings
  /\ verdict \in Ips \cup {Racing, NoIp}

\* A race over distinct addresses that has no verdict still waits for a probe
\* that can decide it: the loop over the probes never runs dry with answers in
\* hand and no winner (the None behind the loop of race_logic is out of reach),
\* because the target is what the least unlucky address can reach and nobody has
\* reached it.  A list with a repeated address has no such assurance: its target
\* never falls below PINGS_PER_IP.
NeverRunsDry ==
  verdict = Racing =>
    /\ \A i \in Ips : hits[i] < target
    /\ Distinct =>
         /\ \A i \in Ips : Pings - misses[i] <= target
         /\ \E i \in Ips : Outstanding(i) /\ Pings - misses[i] = target
    /\ ~Distinct => target = Pings

Promise ==
  INSTANCE SpeedTest WITH answered <- {i \in Ips : hits[i] > 0},
                          underway <- \E i \in Ips : Outstanding(i),
                          repeated <- ~Distinct

\* The race keeps the promise of a speed test: the verdict is an address that
\* answered, it is final, and NoIp means that none did (the arm Ok(None) takes
\* this for confirmed), unless the list repeats an address and all probes are
\* back.
KeepsPromise == Promise!Spec
=============================================================================
