--------------------------- MODULE UpstreamProofs ---------------------------
(***************************************************************************)
(* Proofs about the modules below the cache.  The lookup (NameServer), for *)
(* any queries, servers, answers and response modes: its inflight map      *)
(* implements Folding, its state keeps its types, and a complete answer is *)
(* neither lost nor overruled by a bare NXDOMAIN.  The speed test          *)
(* (PingRace), for any list of addresses, with or without repetitions, any *)
(* number of probes a byte holds, any latencies and penalty.  The          *)
(* dual-stack selection (DualStack), for any replies, speed-check modes    *)
(* and least TTL.                                                          *)
(***************************************************************************)
EXTENDS MCUpstream, FiniteSetTheorems, WellFoundedInduction, TLAPS

\* A set of naturals with a member has a least one.
LEMMA Least ==
  ASSUME NEW S, S \subseteq Nat, S # {}
  PROVE  \E x \in S : \A y \in S : x <= y
<1>1. PICK x \in S : \A y \in S : ~ (<<y, x>> \in OpToRel(<, Nat))
  BY NatLessThanWellFounded, WFMin, Zenon
<1>2. \A y \in S : x <= y
  <2>1. SUFFICES ASSUME NEW y \in S, y < x PROVE FALSE
    OBVIOUS
  <2>2. <<y, x>> \in OpToRel(<, Nat)
    BY <2>1 DEF OpToRel
  <2>3. QED
    BY <1>1, <2>2
<1>3. QED
  BY <1>2

----------------------------------------------------------------------------
(* The lookup: folding.                                                    *)

\* The map and the queries agree, and a sender is in the map exactly while a
\* lookup is under way.
FoldInv ==
  /\ strategy \in Strategies
  /\ at \in [Queries -> {"idle", "lead", "wait"}]
  /\ sender \in Queries \cup {Nobody}
  /\ \A q \in Queries : sender = q <=> at[q] = "lead"
  /\ sender = Nobody => \A q \in Queries : at[q] # "wait"
  /\ round # "off" <=> sender # Nobody

\* What a step inside the lookup leaves alone.
Inside ==
  /\ UNCHANGED <<strategy, at, sender>>
  /\ round # "off" /\ round' # "off"

\* An exchange with a server, whatever its outcome, never ends the flight
\* (NameServer::lookup, race_servers, lookup_ip_with).
LEMMA ServerInside ==
  ASSUME FoldInv, ServerStep
  PROVE  Inside
<1> USE ServerAssumption DEF Flying
<1>1. ASSUME NEW s \in Servers, NEW r, Flying, Arrive(s, r)
      PROVE  Inside
  <2>1. UNCHANGED <<strategy, at, sender>>
    BY <1>1 DEF Arrive
  <2>2. round' # "off"
    BY <1>1 DEF Arrive, FoldInv, EndRound, Done, Untested, Wait
  <2>3. QED
    BY <1>1, <2>1, <2>2 DEF Inside
<1>2. ASSUME NEW s \in Servers, NEW r \in Answers, Reply(s, r) \/ TcpReply(s, r)
      PROVE  Inside
  <2>1. CASE Arrive(s, r)
    BY <1>1, <1>2, <2>1 DEF Reply, TcpReply
  <2>2. CASE ~Arrive(s, r)
    BY <1>2, <2>2 DEF Reply, TcpReply, Inside
  <2>3. QED
    BY <2>1, <2>2
<1>3. ASSUME NEW s \in Servers, TcpFails(s)
      PROVE  Inside
  <2>1. CASE leg[s] = "retry"
    <3>1. UNCHANGED <<strategy, at, sender>>
      BY <1>3, <2>1 DEF TcpFails, Arrive
    <3>2. round' # "off"
      BY <1>3, <2>1 DEF TcpFails, Arrive, FoldInv, EndRound, Done, Untested, Wait
    <3>3. QED
      BY <1>3, <3>1, <3>2 DEF Inside, TcpFails
  <2>2. CASE leg[s] # "retry"
    BY <1>3, <2>2 DEF TcpFails, Inside
  <2>3. QED
    BY <2>1, <2>2
<1>4. QED
  BY <1>2, <1>3 DEF ServerStep

\* Nor does a speed test, the choice between the rounds, or the time limit.
LEMMA TestInside ==
  ASSUME FoldInv, TestStep \/ Choose \/ Cut
  PROVE  Inside
<1> USE DEF Flying, Inside, EndRound, Done
<1>1. ASSUME NEW i \in 1 .. Cardinality(Servers), TestMisses(i) PROVE Inside
  BY <1>1 DEF TestMisses, Untested
<1>2. ASSUME NEW i \in 1 .. Cardinality(Servers), NEW ip \in Addresses, TestHits(i, ip)
      PROVE  Inside
  BY <1>2 DEF TestHits
<1>3. ASSUME NEW ip \in Addresses, GatherEnds(ip) PROVE Inside
  BY <1>3 DEF GatherEnds
<1>4. ASSUME GatherEmpty PROVE Inside
  BY <1>4 DEF GatherEmpty
<1>5. ASSUME Choose \/ Cut PROVE Inside
  BY <1>5 DEF Choose, Cut
<1>6. QED
  BY <1>1, <1>2, <1>3, <1>4, <1>5 DEF TestStep

\* The end of a lookup, by its result or by InflightNsGuard, is the same step of
\* the map: Land with some outcome.
LEMMA LandFacts ==
  ASSUME FoldInv, Publish \/ Abort
  PROVE  /\ round # "off" /\ round' = "off" /\ strategy' = strategy
         /\ sender' = Nobody /\ at' = [q \in Queries |-> "idle"]
<1>1. round # "off" /\ round' = "off" /\ strategy' = strategy /\ sender' = Nobody
  BY DEF Publish, Abort, Land
<1>2. at' = [q \in Queries |-> IF q \in Told THEN "idle" ELSE at[q]]
  BY DEF Publish, Abort, Land
<1>3. at' = [q \in Queries |-> "idle"]
  BY <1>2 DEF Told
<1>4. QED
  BY <1>1, <1>3

\* The invariant holds initially and is preserved by every step.
LEMMA FoldInductive == LookupSpec => []FoldInv
<1> USE ServerAssumption
<1>1. LookupInit => FoldInv
  BY DEF LookupInit, FoldInv
<1>2. ASSUME FoldInv, [LookupNext]_lookupVars PROVE FoldInv'
  <2>1. ASSUME NEW q \in Queries, Lead(q) PROVE FoldInv'
    BY <1>2, <2>1 DEF FoldInv, Lead
  <2>2. ASSUME NEW q \in Queries, Join(q) PROVE FoldInv'
    BY <1>2, <2>2 DEF FoldInv, Join, race
  <2>3. CASE Publish \/ Abort
    BY <1>2, <2>3, LandFacts DEF FoldInv
  <2>4. CASE ServerStep \/ TestStep \/ Choose \/ Cut
    <3>1. Inside
      BY <1>2, <2>4, ServerInside, TestInside
    <3>2. QED
      BY <1>2, <3>1 DEF FoldInv, Inside
  <2>5. CASE UNCHANGED lookupVars
    BY <1>2, <2>5 DEF FoldInv, lookupVars, race
  <2>6. QED
    BY <1>2, <2>1, <2>2, <2>3, <2>4, <2>5 DEF LookupNext
<1>3. QED
  BY <1>1, <1>2, PTL DEF LookupSpec

\* The map as Folding sees it.
Asks == [f \in {"key"} |-> sender]
Waits == [f \in {"key"} |-> {q \in Queries : at[q] = "wait"}]

\* Concurrent queries with one folding key share one lookup, and its end, by an
\* answer, an error, the five seconds or a panic of the leading task, releases
\* all of them in one step (NameServerMiddleware::handle, InflightNsGuard).
THEOREM LookupFoldsHolds == LookupSpec => LookupFolds
<1> USE ServerAssumption
<1>1. LookupInit => Flight!Init
  BY DEF LookupInit, Flight!Init
<1>2. ASSUME FoldInv, [LookupNext]_lookupVars PROVE [Flight!Next]_<<Asks, Waits>>
  <2>1. ASSUME NEW q \in Queries, Lead(q) PROVE Flight!Lead("key", q)
    BY <1>2, <2>1 DEF FoldInv, Lead, Flight!Lead, Flight!Free
  <2>2. ASSUME NEW q \in Queries, Join(q) PROVE Flight!Join("key", q)
    <3>1. {p \in Queries : at'[p] = "wait"} = {p \in Queries : at[p] = "wait"} \cup {q}
      BY <1>2, <2>2 DEF FoldInv, Join
    <3>2. QED
      BY <1>2, <2>2, <3>1 DEF FoldInv, Join, Flight!Join, Flight!Free
  <2>3. ASSUME Publish \/ Abort PROVE Flight!End("key")
    <3>1. {p \in Queries : at'[p] = "wait"} = {}
      BY <1>2, <2>3, LandFacts
    <3>2. QED
      BY <1>2, <2>3, <3>1, LandFacts DEF FoldInv, Flight!End
  <2>4. CASE ServerStep \/ TestStep \/ Choose \/ Cut
    BY <1>2, <2>4, ServerInside, TestInside DEF Inside, Asks, Waits
  <2>5. CASE UNCHANGED lookupVars
    BY <2>5 DEF lookupVars, Asks, Waits
  <2>6. QED
    BY <1>2, <2>1, <2>2, <2>3, <2>4, <2>5 DEF LookupNext, Flight!Next
<1>3. QED
  BY <1>1, <1>2, FoldInductive, PTL DEF LookupSpec, LookupFolds, Flight!Spec, Asks, Waits

----------------------------------------------------------------------------
(* The lookup: types, and what becomes of an answer.                       *)

\* What a reply, and an outcome, is.
LEMMA ReplyShape ==
  ASSUME NEW r \in Answers
  PROVE  /\ r \in Outcomes
         /\ r.tc \in BOOLEAN /\ r.ips \subseteq Addresses
         /\ (Ok(r) \/ r.tc \/ r.ips # {}) => r \in Replies
<1>1. CASE r \in Replies
  BY <1>1 DEF Replies, Outcomes
<1>2. CASE r = Failure("err")
  BY <1>2 DEF Failure, Outcomes, Ok, Rank
<1>3. QED
  BY <1>1, <1>2, ServerAssumption

\* response_rank orders the codes: an answer before anything else, a bare
\* NXDOMAIN before nothing but what is not understood.
LEMMA RankFacts ==
  ASSUME NEW c \in DOMAIN Rank
  PROVE  /\ Rank[c] \in Nat
         /\ Rank[c] <= Rank["answer"] => c = "answer"
         /\ Rank["nx"] <= Rank[c] => c \in {"nx", "other"}
BY DEF Rank

\* The earliest of some replies is one of them.
LEMMA EarliestFacts ==
  ASSUME NEW s, NEW I \in SUBSET Nat, I # {}
  PROVE  \E i \in I : Earliest(s, I) = s[i]
<1>1. \E i \in I : \A j \in I : i <= j
  BY Least
<1>2. QED
  BY <1>1, Zenon DEF Earliest

\* The best of some replies is one of them, and none of them ranks before it.
LEMMA BestFacts ==
  ASSUME NEW s, NEW I \in SUBSET Nat, I # {}, \A i \in I : Ok(s[i])
  PROVE  \E i \in I : Best(s, I) = s[i] /\ \A j \in I : Rank[s[i].code] <= Rank[s[j].code]
<1> DEFINE rank(i) == Rank[s[i].code]
           Before(i, j) == rank(i) < rank(j) \/ (rank(i) = rank(j) /\ i <= j)
<1>1. \A i \in I : rank(i) \in Nat
  BY RankFacts DEF Ok
<1> HIDE DEF rank
<1>2. PICK m \in {rank(i) : i \in I} : \A n \in {rank(i) : i \in I} : m <= n
  <2>1. {rank(i) : i \in I} \subseteq Nat /\ {rank(i) : i \in I} # {}
    BY <1>1
  <2>2. QED
    BY <2>1, Least
<1>3. PICK k \in {i \in I : rank(i) = m} : \A j \in {i \in I : rank(i) = m} : k <= j
  <2>1. {i \in I : rank(i) = m} \subseteq Nat /\ {i \in I : rank(i) = m} # {}
    BY <1>2
  <2>2. QED
    BY <2>1, Least
<1>4. \A j \in I : Before(k, j)
  <2>1. SUFFICES ASSUME NEW j \in I PROVE Before(k, j)
    OBVIOUS
  <2>2. rank(k) = m /\ m <= rank(j) /\ m \in Nat /\ rank(j) \in Nat
    BY <1>1, <1>2, <1>3
  <2>3. rank(j) = m => k <= j
    BY <1>3
  <2>4. QED
    BY <2>2, <2>3
<1>5. Best(s, I) = s[CHOOSE i \in I : \A j \in I : Before(i, j)]
  BY DEF Best, rank
<1>6. PICK i \in I : Best(s, I) = s[i] /\ \A j \in I : Before(i, j)
  BY <1>3, <1>4, <1>5, Zenon
<1>7. \A j \in I : rank(i) <= rank(j)
  BY <1>1, <1>6
<1>8. QED
  BY <1>6, <1>7 DEF rank

\* lookup_ip_with keeps one address of a reply that holds it, and nothing else
\* of that reply changes.
LEMMA SelectedFacts ==
  ASSUME NEW s \in Seq(Answers), NEW ip \in AllIps(s)
  PROVE  /\ Selected(s, ip) \in Replies
         /\ \E i \in DOMAIN s : /\ ip \in s[i].ips /\ Ok(s[i])
                                /\ Selected(s, ip).code = s[i].code
                                /\ Selected(s, ip).tc = s[i].tc
<1> DEFINE I == {i \in DOMAIN s : ip \in s[i].ips}
<1>1. I \subseteq Nat /\ I # {}
  BY DEF AllIps
<1>2. PICK i \in I : Earliest(s, I) = s[i]
  BY <1>1, EarliestFacts
<1>3. s[i] \in Replies
  <2>1. s[i] \in Answers /\ ip \in s[i].ips
    BY <1>2
  <2>2. QED
    BY <2>1, ReplyShape
<1>4. Selected(s, ip) = [s[i] EXCEPT !.ips = {ip}]
  BY <1>2 DEF Selected
<1>5. QED
  BY <1>2, <1>3, <1>4 DEF Replies, Ok

\* Servers put addresses only into answers: response_rank goes by the response
\* code, the selection by address by the records alone, and the two agree on
\* such replies only.
Orderly == \A r \in Answers : r.ips # {} => r.code = "answer"

\* A complete reply.
Whole(r) == Ok(r) /\ ~r.tc

\* What `knew` records of a reply.
Mark(r) == IF r.tc THEN "cut" ELSE r.code

\* A round ends justly with `result` if a complete answer among the replies s,
\* none of which is truncated, makes it a complete answer, and a bare NXDOMAIN
\* is the result only if no complete reply says better.
Just(s, result) ==
  /\ (\E i \in DOMAIN s : Whole(s[i]) /\ s[i].code = "answer") /\ (\A i \in DOMAIN s : Ok(s[i]) => ~s[i].tc)
       => Whole(result) /\ result.code = "answer"
  /\ result.code = "nx" => \A i \in DOMAIN s : Whole(s[i]) => s[i].code \in {"nx", "other"}

\* The first failure is no reply if nothing is.
LEMMA FailureFacts ==
  ASSUME NEW s \in Seq(Answers), \A i \in DOMAIN s : ~Ok(s[i])
  PROVE  FirstFailure(s) \in Outcomes /\ ~Ok(FirstFailure(s))
<1>1. CASE s = <<>>
  BY <1>1 DEF FirstFailure, Failure, Outcomes, Ok, Rank
<1>2. CASE s # <<>>
  <2>1. s[1] \in Answers /\ 1 \in DOMAIN s
    BY <1>2
  <2>2. QED
    BY <1>2, <2>1, ReplyShape DEF FirstFailure
<1>3. QED
  BY <1>1, <1>2

\* A best reply among some that include every complete one is a just result.
LEMMA BestJust ==
  ASSUME NEW s \in Seq(Answers), NEW I \in SUBSET DOMAIN s, I # {},
         \A i \in I : Ok(s[i]), \A i \in DOMAIN s : Whole(s[i]) => i \in I
  PROVE  Best(s, I) \in Outcomes /\ Just(s, Best(s, I))
<1>1. I \in SUBSET Nat
  OBVIOUS
<1>2. PICK i \in I : Best(s, I) = s[i] /\ \A j \in I : Rank[s[i].code] <= Rank[s[j].code]
  BY <1>1, BestFacts
<1>3. s[i] \in Outcomes /\ Ok(s[i])
  BY ReplyShape
<1>4. ASSUME NEW j \in DOMAIN s, Whole(s[j]), s[j].code = "answer" PROVE s[i].code = "answer"
  <2>1. Rank[s[i].code] <= Rank["answer"]
    BY <1>2, <1>4
  <2>2. QED
    BY <1>3, <2>1, RankFacts DEF Ok
<1>5. ASSUME s[i].code = "nx", NEW j \in DOMAIN s, Whole(s[j]) PROVE s[j].code \in {"nx", "other"}
  <2>1. Rank["nx"] <= Rank[s[j].code]
    BY <1>2, <1>5
  <2>2. QED
    BY <1>5, <2>1, RankFacts DEF Ok, Whole
<1>6. QED
  BY <1>2, <1>3, <1>4, <1>5 DEF Just, Whole

\* If no reply is complete any result is just.
LEMMA NothingJust ==
  ASSUME NEW s, NEW result, \A i \in DOMAIN s : ~Whole(s[i])
  PROVE  Just(s, result)
BY DEF Just

\* The selection below the response modes is just.
LEMMA FallenJust ==
  ASSUME NEW s \in Seq(Answers)
  PROVE  Fallen(s) \in Outcomes /\ Just(s, Fallen(s))
<1> DEFINE ok == {i \in DOMAIN s : Ok(s[i])}
<1>1. CASE ok # {}
  <2>1. Fallen(s) = Best(s, ok)
    BY <1>1 DEF Fallen
  <2>2. \A i \in DOMAIN s : Whole(s[i]) => i \in ok
    BY DEF Whole
  <2>3. QED
    BY <1>1, <2>1, <2>2, BestJust
<1>2. CASE ok = {}
  <2>1. Fallen(s) = FirstFailure(s) /\ \A i \in DOMAIN s : ~Ok(s[i])
    BY <1>2 DEF Fallen
  <2>2. QED
    BY <2>1, FailureFacts, NothingJust DEF Whole
<1>3. QED
  BY <1>1, <1>2

\* pick_best is just.
LEMMA PickBestJust ==
  ASSUME NEW s \in Seq(Answers)
  PROVE  PickBest(s) \in Outcomes /\ Just(s, PickBest(s))
<1> DEFINE ok == {i \in DOMAIN s : Ok(s[i]) /\ (i = Len(s) \/ ~s[i].tc)}
           cut == {i \in DOMAIN s : s[i].tc}
<1>1. \A i \in DOMAIN s : Whole(s[i]) => i \in ok
  BY DEF Whole
<1>2. CASE ok # {}
  <2>1. PickBest(s) = Best(s, ok)
    BY <1>2 DEF PickBest
  <2>2. QED
    BY <1>1, <1>2, <2>1, BestJust
<1>3. CASE ok = {} /\ cut # {}
  <2>1. PickBest(s) = Earliest(s, cut)
    BY <1>3 DEF PickBest
  <2>2. cut \in SUBSET Nat
    OBVIOUS
  <2>3. PICK i \in cut : Earliest(s, cut) = s[i]
    BY <1>3, <2>2, EarliestFacts
  <2>4. PickBest(s) \in Outcomes
    BY <2>1, <2>3, ReplyShape
  <2>5. QED
    BY <1>1, <1>3, <2>4, NothingJust
<1>4. CASE ok = {} /\ cut = {}
  <2>1. PickBest(s) = FirstFailure(s)
    BY <1>4 DEF PickBest
  <2>2. \A i \in DOMAIN s : ~Ok(s[i])
    BY <1>4
  <2>3. QED
    BY <2>1, <2>2, FailureFacts, NothingJust DEF Whole
<1>5. QED
  BY <1>2, <1>3, <1>4

\* So is the selection by address, of servers that put addresses into answers.
LEMMA SelectedJust ==
  ASSUME NEW s \in Seq(Answers), NEW ip \in AllIps(s), Orderly
  PROVE  Just(s, Selected(s, ip))
<1>1. PICK i \in DOMAIN s : /\ ip \in s[i].ips /\ Ok(s[i])
                            /\ Selected(s, ip).code = s[i].code
                            /\ Selected(s, ip).tc = s[i].tc
  BY SelectedFacts
<1>2. s[i].code = "answer"
  BY <1>1 DEF Orderly
<1>3. QED
  BY <1>1, <1>2 DEF Just, Whole, Ok

\* The servers the round is still waiting for.
Open == {s \in Servers : leg[s] # "off"}

\* The invariant of the types.  Every reply in hand is one a server may give,
\* a TCP leg completes such a reply, and with the exchanges still open there
\* are no more replies than servers.
LookupTyped ==
  /\ strategy \in Strategies
  /\ LookupTypeOK
  /\ seen \in Seq(Answers)
  /\ Len(seen) + Cardinality(Open) <= Cardinality(Servers)
  /\ first \in Outcomes /\ second \in Outcomes
  /\ \A s \in Servers : leg[s] \in {"tcp", "retry"} => half[s] \in Answers

\* The history k is what the replies s say.
Accords(s, k) ==
  /\ \A i \in DOMAIN s : Ok(s[i]) => Mark(s[i]) \in k
  /\ \A c \in k : c = "cut" \/ \E i \in DOMAIN s : Whole(s[i]) /\ s[i].code = c

\* No reply of s would have ended the round at once.
Undecided(s) ==
  /\ strategy = "Other" => \A i \in DOMAIN s : ~Conclusive(s[i])
  /\ strategy = "FastestResponse" => \A i \in DOMAIN s : s[i].code # "answer"

\* The fallback servers are asked only if no complete answer had come, unless a
\* truncated one had, too.
FallbackNeeded ==
  round \in {"fallback", "choose"} => "answer" \notin knew \/ "cut" \in knew

\* A bare NXDOMAIN that the ordinary servers' round ended with was unopposed.
NxLast ==
  round \in {"fallback", "choose", "done"} /\ first.code = "nx"
    => knew \subseteq {"nx", "other", "cut"}

\* The invariant of what was known.
LookupKnown ==
  /\ round = "primary" => Accords(seen, knew)
  /\ Undecided(seen)
  /\ FallbackNeeded
  /\ NxLast
  /\ AnswerKept

\* A round that asks some of the servers waits for no more than there are.
LEMMA OpenFacts ==
  /\ IsFiniteSet(Open) /\ Cardinality(Open) \in Nat
  /\ Cardinality(Open) <= Cardinality(Servers) /\ Cardinality(Servers) \in Nat
<1>1. IsFiniteSet(Servers) /\ Open \subseteq Servers
  BY ServerAssumption DEF Open
<1>2. QED
  BY <1>1, FS_Subset, FS_CardinalityType

\* Reading one more reply keeps the history true to the replies.
LEMMA AccordsAppend ==
  ASSUME NEW s \in Seq(Answers), NEW k, NEW r \in Answers, Accords(s, k)
  PROVE  Accords(Append(s, r), IF Ok(r) THEN k \cup {Mark(r)} ELSE k)
<1> DEFINE all == Append(s, r)
<1>1. /\ DOMAIN all = DOMAIN s \cup {Len(s) + 1} /\ all[Len(s) + 1] = r
      /\ \A i \in DOMAIN s : all[i] = s[i]
  OBVIOUS
<1>2. Mark(r) = "cut" \/ (~r.tc /\ Mark(r) = r.code)
  BY DEF Mark
<1> HIDE DEF all
<1>3. QED
  BY <1>1, <1>2 DEF Accords, Whole

\* Without a test's verdict the round ends justly, too.
LEMMA UntestedJust ==
  ASSUME NEW s \in Seq(Answers), Untested(s)
  PROVE  \E result \in Outcomes : EndRound(result) /\ (Orderly => Just(s, result))
<1>1. CASE AllIps(s) = {}
  BY <1>1, FallenJust DEF Untested
<1>2. CASE AllIps(s) # {}
  <2>1. PICK ip \in AllIps(s) : EndRound(Selected(s, ip))
    BY <1>2 DEF Untested, Frequent
  <2>2. Selected(s, ip) \in Outcomes
    BY SelectedFacts DEF Outcomes
  <2>3. QED
    BY <2>1, <2>2, SelectedJust
<1>3. QED
  BY <1>1, <1>2

\* An arrival is one of two things: the lookup waits on with one more reply, or
\* the round ends with a result that is just to all replies in hand
\* (race_servers, lookup_ip_with).
LEMMA ArriveCases ==
  ASSUME LookupTyped, NEW s \in Servers, NEW r \in Answers, Arrive(s, r),
         NEW all, all = Append(seen, r)
  PROVE  \/ /\ Wait(s, r) /\ tests' \subseteq DOMAIN all
            /\ Undecided(seen) => Undecided(all)
         \/ \E result \in Outcomes :
              EndRound(result) /\ (Orderly /\ Undecided(seen) => Just(all, result))
<1>1. /\ all \in Seq(Answers) /\ all # <<>>
      /\ DOMAIN all = DOMAIN seen \cup {Len(all)} /\ all[Len(all)] = r
      /\ \A i \in DOMAIN seen : all[i] = seen[i]
  BY DEF LookupTyped
<1>2. r \in Outcomes
  BY ReplyShape
<1>3. tests \subseteq DOMAIN seen
  BY DEF LookupTyped, LookupTypeOK
<1>4. strategy \in {"Other", "FastestResponse", "FirstPing", "FastestIp"}
  BY ServerAssumption DEF LookupTyped
<1> DEFINE others == \E o \in Servers \ {s} : leg[o] # "off"
<1>5. CASE strategy = "Other"
  <2>1. CASE Conclusive(r)
    <3>1. EndRound(r)
      BY <1>5, <2>1 DEF Arrive
    <3>2. ASSUME Undecided(seen) PROVE Just(all, r)
      <4>1. \A i \in DOMAIN all : Whole(all[i]) /\ all[i].code = "answer" => i = Len(all)
        BY <1>1, <1>5, <3>2 DEF Undecided, Whole, Conclusive
      <4>2. QED
        BY <1>1, <2>1, <4>1 DEF Just, Whole, Conclusive
    <3>3. QED
      BY <1>2, <3>1, <3>2
  <2>2. CASE ~Conclusive(r) /\ others
    BY <1>1, <1>3, <1>5, <2>2 DEF Arrive, Undecided
  <2>3. CASE ~Conclusive(r) /\ ~others
    <3>1. EndRound(PickBest(all))
      BY <1>5, <2>3 DEF Arrive
    <3>2. QED
      BY <1>1, <3>1, PickBestJust
  <2>4. QED
    BY <2>1, <2>2, <2>3
<1>6. CASE strategy = "FastestResponse"
  <2>1. CASE r.code = "answer"
    <3>1. EndRound(r)
      BY <1>6, <2>1 DEF Arrive
    <3>2. Just(all, r)
      <4>1. Ok(r)
        BY <2>1 DEF Ok, Rank
      <4>2. QED
        BY <1>1, <2>1, <4>1 DEF Just, Whole
    <3>3. QED
      BY <1>2, <3>1, <3>2
  <2>2. CASE r.code # "answer" /\ others
    BY <1>1, <1>3, <1>6, <2>2 DEF Arrive, Undecided
  <2>3. CASE r.code # "answer" /\ ~others
    <3>1. EndRound(Fallen(all))
      BY <1>6, <2>3 DEF Arrive
    <3>2. QED
      BY <1>1, <3>1, FallenJust
  <2>4. QED
    BY <2>1, <2>2, <2>3
<1>7. CASE strategy = "FirstPing"
  <2> DEFINE tested == IF r.ips # {} THEN tests \cup {Len(all)} ELSE tests
  <2>1. CASE others \/ tested # {}
    <3>1. Wait(s, r) /\ tests' = tested
      BY <1>7, <2>1 DEF Arrive
    <3>2. QED
      BY <1>1, <1>3, <1>7, <3>1 DEF Undecided
  <2>2. CASE ~(others \/ tested # {})
    <3>1. Untested(all)
      BY <1>7, <2>2 DEF Arrive
    <3>2. QED
      BY <1>1, <3>1, UntestedJust
  <2>3. QED
    BY <2>1, <2>2
<1>8. CASE strategy = "FastestIp"
  <2>1. CASE others \/ AllIps(all) # {}
    <3>1. Wait(s, r) /\ UNCHANGED tests
      BY <1>8, <2>1 DEF Arrive
    <3>2. QED
      BY <1>1, <1>3, <1>8, <3>1 DEF Undecided
  <2>2. CASE ~(others \/ AllIps(all) # {})
    <3>1. EndRound(Fallen(all))
      BY <1>8, <2>2 DEF Arrive
    <3>2. QED
      BY <1>1, <3>1, FallenJust
  <2>3. QED
    BY <2>1, <2>2
<1>9. QED
  BY <1>4, <1>5, <1>6, <1>7, <1>8

\* The end of a round drops its exchanges; the next round asks other servers.
LEMMA EndTyped ==
  ASSUME LookupTyped, Flying, NEW result \in Outcomes, EndRound(result),
         UNCHANGED <<strategy, at, sender, outcome>>
  PROVE  LookupTyped'
<1>1. None \in Outcomes
  BY DEF Outcomes, None
<1>2. /\ seen' = <<>> /\ tests' = {} /\ half' = Blank
      /\ round' \in {"choose", "fallback", "done"}
      /\ first' \in Outcomes /\ second' \in Outcomes
      /\ \/ leg' = Idle
         \/ round' = "fallback" /\ leg' = [s \in Servers |-> IF s \in Spare THEN "udp" ELSE "off"]
  BY <1>1 DEF EndRound, Done, Dropped, Ask, LookupTyped
<1>3. LookupTypeOK'
  <2>1. half' \in [Servers -> Outcomes]
    BY <1>1, <1>2 DEF Blank
  <2>2. /\ leg' \in [Servers -> {"off", "udp", "tcp", "retry"}]
        /\ \A s \in Servers : leg'[s] \notin {"tcp", "retry"}
        /\ \A s \in Servers : leg'[s] # "off" => round' = "fallback" /\ s \notin Ordinary
    BY <1>2 DEF Idle, Spare
  <2>3. Len(seen') <= Cardinality(Servers)
    BY <1>2, OpenFacts
  <2>4. QED
    BY <1>2, <2>1, <2>2, <2>3 DEF LookupTyped, LookupTypeOK
<1>4. \A s \in Servers : leg'[s] \notin {"tcp", "retry"}
  BY <1>2 DEF Idle
<1>5. Len(seen') + Cardinality(Open') <= Cardinality(Servers)
  <2>1. Cardinality(Open') \in Nat /\ Cardinality(Open') <= Cardinality(Servers)
    BY ServerAssumption, FS_Subset, FS_CardinalityType DEF Open
  <2>2. QED
    BY <1>2, <2>1
<1>6. QED
  BY <1>2, <1>3, <1>4, <1>5 DEF LookupTyped

\* One more reply in hand is one exchange less.
LEMMA WaitTyped ==
  ASSUME LookupTyped, NEW s \in Servers, NEW r \in Answers, leg[s] # "off", Wait(s, r),
         tests' \subseteq DOMAIN Append(seen, r), UNCHANGED <<strategy, at, sender, outcome>>
  PROVE  LookupTyped'
<1>1. /\ leg' = [leg EXCEPT ![s] = "off"] /\ half' = [half EXCEPT ![s] = None]
      /\ seen' = Append(seen, r) /\ UNCHANGED <<round, first, second>>
  BY DEF Wait
<1>2. seen \in Seq(Answers) /\ seen' \in Seq(Answers) /\ Len(seen') = Len(seen) + 1
  BY <1>1 DEF LookupTyped
<1>3. leg \in [Servers -> {"off", "udp", "tcp", "retry"}] /\ half \in [Servers -> Outcomes]
  BY DEF LookupTyped, LookupTypeOK
<1>4. leg' \in [Servers -> {"off", "udp", "tcp", "retry"}]
  BY <1>1, <1>3
<1>5. half' \in [Servers -> Outcomes]
  BY <1>1, <1>3 DEF Outcomes, None
<1>6. Len(seen') + Cardinality(Open') <= Cardinality(Servers)
  <2>1. Open' = Open \ {s} /\ s \in Open
    BY <1>1, <1>3 DEF Open
  <2>2. Cardinality(Open') = Cardinality(Open) - 1
    BY <2>1, OpenFacts, FS_RemoveElement
  <2>3. Len(seen) \in Nat /\ Len(seen) + Cardinality(Open) <= Cardinality(Servers)
    BY <1>2 DEF LookupTyped
  <2>4. QED
    BY <1>2, <2>2, <2>3, OpenFacts
<1>7. Len(seen') <= Cardinality(Servers)
  <2>1. Cardinality(Open') \in Nat
    BY ServerAssumption, FS_Subset, FS_CardinalityType DEF Open
  <2>2. QED
    BY <1>2, <1>6, <2>1, OpenFacts
<1>8. LookupTypeOK'
  BY <1>1, <1>3, <1>4, <1>5, <1>7 DEF LookupTyped, LookupTypeOK
<1>9. \A o \in Servers : leg'[o] \in {"tcp", "retry"} => half'[o] \in Answers
  BY <1>1, <1>3 DEF LookupTyped
<1>10. QED
  BY <1>1, <1>2, <1>6, <1>8, <1>9 DEF LookupTyped

\* A result that is just to the ordinary servers' replies is not given up, and
\* the fallback servers' result replaces it only if it had to be.
LEMMA EndKnown ==
  ASSUME LookupKnown, Flying, NEW s, NEW result, EndRound(result), UNCHANGED strategy,
         Just(s, result),
         round = "primary" => Accords(s, knew'),
         round = "fallback" => knew' = knew
  PROVE  LookupKnown'
<1>1. seen' = <<>> /\ round' \in {"choose", "fallback", "done"}
  BY DEF EndRound, Done, Dropped, Ask
<1>2. Undecided(seen)'
  BY <1>1 DEF Undecided
<1>3. CASE round = "fallback"
  <2>1. round' = "choose" /\ first' = first /\ knew' = knew
    BY <1>3 DEF EndRound
  <2>2. FallbackNeeded' /\ NxLast' /\ AnswerKept'
    BY <1>3, <2>1 DEF LookupKnown, FallbackNeeded, NxLast, AnswerKept
  <2>3. QED
    BY <1>1, <1>2, <2>2 DEF LookupKnown
<1>4. CASE round = "primary"
  <2>1. first' = result /\ (round' # "done" => ~Conclusive(result)) /\ round' # "choose"
    BY <1>4 DEF EndRound, Done, WantsFallback
  <2>2. "answer" \in knew' /\ "cut" \notin knew' => Whole(result) /\ result.code = "answer"
    <3>1. SUFFICES ASSUME "answer" \in knew', "cut" \notin knew'
                   PROVE  Whole(result) /\ result.code = "answer"
      OBVIOUS
    <3>2. \E i \in DOMAIN s : Whole(s[i]) /\ s[i].code = "answer"
      BY <1>4, <3>1 DEF Accords
    <3>3. \A i \in DOMAIN s : Ok(s[i]) => ~s[i].tc
      BY <1>4, <3>1 DEF Accords, Mark
    <3>4. QED
      BY <3>2, <3>3 DEF Just
  <2>3. result.code = "nx" => knew' \subseteq {"nx", "other", "cut"}
    BY <1>4 DEF Just, Accords
  <2>4. FallbackNeeded'
    BY <1>1, <2>1, <2>2 DEF FallbackNeeded, Conclusive, Whole
  <2>5. NxLast'
    BY <2>1, <2>3 DEF NxLast
  <2>6. AnswerKept'
    BY <2>1, <2>2 DEF AnswerKept
  <2>7. QED
    BY <1>1, <1>2, <2>4, <2>5, <2>6 DEF LookupKnown
<1>5. QED
  BY <1>3, <1>4 DEF Flying

\* A reply that reaches the race keeps both invariants.
LEMMA ArriveInv ==
  ASSUME LookupTyped, Flying, NEW s \in Servers, NEW r \in Answers, leg[s] # "off", Arrive(s, r)
  PROVE  LookupTyped' /\ (Orderly /\ LookupKnown => LookupKnown')
<1>1. UNCHANGED <<strategy, at, sender, outcome>>
  BY DEF Arrive
<1>2. PICK all : all = Append(seen, r)
  OBVIOUS
<1>3. /\ round = "primary" /\ Accords(seen, knew) => Accords(all, knew')
      /\ round = "fallback" => knew' = knew
  <2>1. knew' = IF round = "primary" /\ Ok(r) THEN knew \cup {Mark(r)} ELSE knew
    BY DEF Arrive, Mark
  <2>2. PICK s0, k0 : s0 = seen /\ k0 = knew
    OBVIOUS
  <2>3. s0 \in Seq(Answers)
    BY <2>2 DEF LookupTyped
  <2>4. Accords(s0, k0) => Accords(Append(s0, r), IF Ok(r) THEN k0 \cup {Mark(r)} ELSE k0)
    BY <2>3, AccordsAppend
  <2>5. QED
    BY <1>2, <2>1, <2>2, <2>4
<1>4. CASE /\ Wait(s, r) /\ tests' \subseteq DOMAIN all
           /\ Undecided(seen) => Undecided(all)
  <2>1. LookupTyped'
    BY <1>1, <1>2, <1>4, WaitTyped
  <2>2. seen' = all /\ UNCHANGED <<strategy, round, first>>
    BY <1>1, <1>2, <1>4 DEF Wait
  <2>3. ASSUME LookupKnown PROVE LookupKnown'
    <3>1. round' = "primary" => Accords(seen', knew')
      BY <1>3, <2>2, <2>3 DEF LookupKnown
    <3>2. Undecided(seen)'
      BY <1>4, <2>2, <2>3 DEF LookupKnown, Undecided
    <3>3. FallbackNeeded' /\ NxLast' /\ AnswerKept'
      BY <1>3, <2>2, <2>3 DEF LookupKnown, FallbackNeeded, NxLast, AnswerKept, Flying
    <3>4. QED
      BY <3>1, <3>2, <3>3 DEF LookupKnown
  <2>4. QED
    BY <2>1, <2>3
<1>5. CASE \E result \in Outcomes :
             EndRound(result) /\ (Orderly /\ Undecided(seen) => Just(all, result))
  <2>1. PICK result \in Outcomes :
          EndRound(result) /\ (Orderly /\ Undecided(seen) => Just(all, result))
    BY <1>5
  <2>2. LookupTyped'
    BY <1>1, <2>1, EndTyped
  <2>3. ASSUME Orderly, LookupKnown PROVE LookupKnown'
    <3>1. Just(all, result) /\ (round = "primary" => Accords(all, knew'))
      BY <1>3, <2>1, <2>3 DEF LookupKnown
    <3>2. QED
      BY <1>1, <1>3, <2>1, <2>3, <3>1, EndKnown
  <2>4. QED
    BY <2>2, <2>3
<1>6. QED
  BY <1>2, <1>4, <1>5, ArriveCases

\* What a step keeps.
LookupKept == LookupTyped' /\ (Orderly /\ LookupKnown => LookupKnown')

\* An exchange with a server keeps both invariants (NameServer::lookup).
LEMMA ServerInv ==
  ASSUME LookupTyped, ServerStep
  PROVE  LookupKept
<1>1. ASSUME NEW s \in Servers, NEW h \in [Servers -> Outcomes], NEW v \in {"tcp", "retry"},
             leg[s] \in {"udp", "tcp"}, leg' = [leg EXCEPT ![s] = v], half' = h,
             \A o \in Servers : o # s => h[o] = half[o], h[s] \in Answers,
             UNCHANGED <<strategy, at, sender, outcome, round, seen, tests, first, second, knew>>
      PROVE  LookupKept
  <2>1. leg \in [Servers -> {"off", "udp", "tcp", "retry"}]
    BY DEF LookupTyped, LookupTypeOK
  <2>2. leg' \in [Servers -> {"off", "udp", "tcp", "retry"}]
    BY <1>1, <2>1
  <2>3. Open' = Open
    BY <1>1, <2>1 DEF Open
  <2>4. \A o \in Servers : leg'[o] \in {"tcp", "retry"} => half'[o] \in Answers
    BY <1>1, <2>1 DEF LookupTyped
  <2>5. \A o \in Servers : leg'[o] # "off" => leg[o] # "off"
    BY <1>1, <2>1
  <2>6. LookupTypeOK'
    BY <1>1, <2>2, <2>5 DEF LookupTyped, LookupTypeOK
  <2>7. LookupTyped'
    BY <1>1, <2>3, <2>4, <2>6 DEF LookupTyped
  <2>8. LookupKnown => LookupKnown'
    BY <1>1 DEF LookupKnown, Undecided, FallbackNeeded, NxLast, AnswerKept
  <2>9. QED
    BY <2>7, <2>8 DEF LookupKept
<1>2. half \in [Servers -> Outcomes]
  BY DEF LookupTyped, LookupTypeOK
<1>3. ASSUME NEW s \in Servers, NEW r \in Answers, Reply(s, r) PROVE LookupKept
  <2>1. CASE r.tc /\ s \in Udp
    <3>1. PICK h : h = [half EXCEPT ![s] = r]
      OBVIOUS
    <3>2. h \in [Servers -> Outcomes] /\ h[s] = r /\ \A o \in Servers : o # s => h[o] = half[o]
      BY <1>2, <3>1, ReplyShape
    <3>3. /\ leg[s] \in {"udp", "tcp"} /\ leg' = [leg EXCEPT ![s] = "tcp"] /\ half' = h
          /\ UNCHANGED <<strategy, at, sender, outcome, round, seen, tests, first, second, knew>>
      BY <1>3, <2>1, <3>1 DEF Reply
    <3>4. QED
      BY <1>1, <3>2, <3>3
  <2>2. CASE ~(r.tc /\ s \in Udp)
    <3>1. Flying /\ leg[s] # "off" /\ Arrive(s, r)
      BY <1>3, <2>2 DEF Reply
    <3>2. QED
      BY <3>1, ArriveInv DEF LookupKept
  <2>3. QED
    BY <2>1, <2>2
<1>4. ASSUME NEW s \in Servers, NEW r \in Answers, TcpReply(s, r) PROVE LookupKept
  <2>1. Flying /\ leg[s] # "off" /\ Arrive(s, r)
    BY <1>4 DEF TcpReply
  <2>2. QED
    BY <2>1, ArriveInv DEF LookupKept
<1>5. ASSUME NEW s \in Servers, TcpFails(s) PROVE LookupKept
  <2>1. CASE leg[s] = "tcp"
    <3>1. PICK h : h = half
      OBVIOUS
    <3>2. h \in [Servers -> Outcomes] /\ h[s] \in Answers
      BY <1>2, <2>1, <3>1 DEF LookupTyped
    <3>3. /\ leg' = [leg EXCEPT ![s] = "retry"] /\ half' = h
          /\ UNCHANGED <<strategy, at, sender, outcome, round, seen, tests, first, second, knew>>
      BY <1>5, <2>1, <3>1 DEF TcpFails
    <3>4. QED
      BY <1>1, <2>1, <3>1, <3>2, <3>3
  <2>2. CASE leg[s] = "retry"
    <3>1. PICK r : r = half[s]
      OBVIOUS
    <3>2. r \in Answers
      BY <2>2, <3>1 DEF LookupTyped
    <3>3. Flying /\ leg[s] # "off" /\ Arrive(s, half[s])
      BY <1>5, <2>2 DEF TcpFails
    <3>4. Arrive(s, r)
      BY <3>1, <3>3 DEF Arrive, Wait
    <3>5. QED
      BY <3>2, <3>3, <3>4, ArriveInv DEF LookupKept
  <2>3. QED
    BY <1>5, <2>1, <2>2 DEF TcpFails
<1>6. QED
  BY <1>3, <1>4, <1>5 DEF ServerStep

\* A round that a test or the gathering of replies ends keeps both invariants.
LEMMA TestedEnd ==
  ASSUME LookupTyped, Flying, NEW s, s = seen,
         \E result \in Outcomes : EndRound(result) /\ (Orderly => Just(s, result)),
         UNCHANGED <<strategy, at, sender, outcome, knew>>
  PROVE  LookupKept
<1>1. PICK result \in Outcomes : EndRound(result) /\ (Orderly => Just(s, result))
  OBVIOUS
<1>2. LookupTyped'
  BY <1>1, EndTyped
<1>3. ASSUME Orderly, LookupKnown PROVE LookupKnown'
  <2>1. round = "primary" => Accords(s, knew')
    BY <1>3 DEF LookupKnown
  <2>2. QED
    BY <1>1, <1>3, <2>1, EndKnown
<1>4. QED
  BY <1>2, <1>3 DEF LookupKept

\* A speed test, with or without a result, keeps both invariants.
LEMMA TestInv ==
  ASSUME LookupTyped, TestStep
  PROVE  LookupKept
<1>1. PICK s : s = seen
  OBVIOUS
<1>2. s \in Seq(Answers) /\ tests \subseteq DOMAIN s
  BY <1>1 DEF LookupTyped, LookupTypeOK
<1>3. ASSUME NEW ip \in AllIps(s), Flying, EndRound(Selected(s, ip)),
             UNCHANGED <<strategy, at, sender, outcome, knew>>
      PROVE  LookupKept
  <2>1. Selected(s, ip) \in Outcomes /\ (Orderly => Just(s, Selected(s, ip)))
    BY <1>2, SelectedFacts, SelectedJust DEF Outcomes
  <2>2. QED
    BY <1>1, <1>3, <2>1, TestedEnd
<1>4. ASSUME NEW i, TestMisses(i) PROVE LookupKept
  <2>1. CASE tests # {i} \/ \E o \in Servers : leg[o] # "off"
    <3>1. /\ tests' = tests \ {i}
          /\ UNCHANGED <<strategy, at, sender, outcome, knew, round, leg, half, seen, first, second>>
      BY <1>4, <2>1 DEF TestMisses
    <3>2. LookupTyped'
      BY <3>1 DEF LookupTyped, LookupTypeOK, Open
    <3>3. LookupKnown => LookupKnown'
      BY <3>1 DEF LookupKnown, Undecided, FallbackNeeded, NxLast, AnswerKept
    <3>4. QED
      BY <3>2, <3>3 DEF LookupKept
  <2>2. CASE ~(tests # {i} \/ \E o \in Servers : leg[o] # "off")
    <3>1. Untested(s) /\ Flying /\ UNCHANGED <<strategy, at, sender, outcome, knew>>
      BY <1>1, <1>4, <2>2 DEF TestMisses
    <3>2. QED
      BY <1>1, <1>2, <3>1, UntestedJust, TestedEnd
  <2>3. QED
    BY <2>1, <2>2
<1>5. ASSUME NEW i, NEW ip, TestHits(i, ip) PROVE LookupKept
  <2>1. ip \in AllIps(s)
    BY <1>1, <1>2, <1>5 DEF TestHits, AllIps
  <2>2. QED
    BY <1>1, <1>3, <1>5, <2>1 DEF TestHits
<1>6. ASSUME NEW ip, GatherEnds(ip) PROVE LookupKept
  BY <1>1, <1>3, <1>6 DEF GatherEnds
<1>7. ASSUME GatherEmpty PROVE LookupKept
  <2>1. Fallen(s) \in Outcomes /\ Just(s, Fallen(s))
    BY <1>2, FallenJust
  <2>2. EndRound(Fallen(s)) /\ Flying /\ UNCHANGED <<strategy, at, sender, outcome, knew>>
    BY <1>1, <1>7 DEF GatherEmpty
  <2>3. QED
    BY <1>1, <2>1, <2>2, TestedEnd
<1>8. QED
  BY <1>4, <1>5, <1>6, <1>7 DEF TestStep

\* A lookup that has no round under way holds no replies.
LEMMA QuietTyped ==
  ASSUME LookupTyped, leg' = Idle, half' = Blank, seen' = <<>>, tests' = {},
         first' \in Outcomes, second' \in Outcomes, UNCHANGED strategy,
         at' \in [Queries -> {"idle", "lead", "wait"}], sender' \in Queries \cup {Nobody},
         outcome' \in [Queries -> Outcomes],
         round' \in {"off", "primary", "fallback", "choose", "done"}
  PROVE  LookupTyped'
<1>1. half' \in [Servers -> Outcomes]
  BY DEF Blank, Outcomes, None
<1>2. leg' \in [Servers -> {"off", "udp", "tcp", "retry"}] /\ \A s \in Servers : leg'[s] = "off"
  BY DEF Idle
<1>3. LookupTypeOK'
  BY <1>1, <1>2, OpenFacts DEF LookupTypeOK
<1>4. Len(seen') + Cardinality(Open') <= Cardinality(Servers)
  <2>1. Open' = {}
    BY <1>2 DEF Open
  <2>2. QED
    BY <2>1, OpenFacts, FS_EmptySet
<1>5. QED
  BY <1>2, <1>3, <1>4 DEF LookupTyped

\* The leader asks the ordinary servers and knows nothing yet.
LEMMA LeadInv ==
  ASSUME LookupTyped, NEW q \in Queries, Lead(q)
  PROVE  LookupTyped' /\ LookupKnown'
<1>1. None \in Outcomes
  BY DEF Outcomes, None
<1>2. /\ sender' = q /\ at' = [at EXCEPT ![q] = "lead"] /\ outcome' = [outcome EXCEPT ![q] = None]
      /\ round' = "primary" /\ first' = None /\ second' = None /\ knew' = {} /\ strategy' = strategy
      /\ leg' = [s \in Servers |-> IF s \in Ordinary THEN "udp" ELSE "off"]
      /\ half' = Blank /\ seen' = <<>> /\ tests' = {}
  BY DEF Lead, Ask
<1>3. half' \in [Servers -> Outcomes]
  BY <1>1, <1>2 DEF Blank
<1>4. at' \in [Queries -> {"idle", "lead", "wait"}] /\ outcome' \in [Queries -> Outcomes]
  BY <1>1, <1>2 DEF LookupTyped, LookupTypeOK
<1>5. /\ leg' \in [Servers -> {"off", "udp", "tcp", "retry"}]
      /\ \A s \in Servers : leg'[s] \notin {"tcp", "retry"} /\ (leg'[s] # "off" => s \in Ordinary)
  BY <1>2
<1>6. LookupTypeOK'
  BY <1>2, <1>3, <1>4, <1>5, OpenFacts DEF LookupTypeOK
<1>7. Len(seen') + Cardinality(Open') <= Cardinality(Servers)
  <2>1. Cardinality(Open') \in Nat /\ Cardinality(Open') <= Cardinality(Servers)
    BY ServerAssumption, FS_Subset, FS_CardinalityType DEF Open
  <2>2. QED
    BY <1>2, <2>1
<1>8. LookupTyped'
  BY <1>1, <1>2, <1>5, <1>6, <1>7 DEF LookupTyped
<1>9. LookupKnown'
  BY <1>2 DEF LookupKnown, Accords, Undecided, FallbackNeeded, NxLast, AnswerKept
<1>10. QED
  BY <1>8, <1>9

\* A follower touches only its own state.
LEMMA FollowerInv ==
  ASSUME LookupTyped, NEW q \in Queries, Join(q)
  PROVE  LookupKept
<1>1. at' \in [Queries -> {"idle", "lead", "wait"}] /\ outcome' \in [Queries -> Outcomes]
  BY DEF Join, LookupTyped, LookupTypeOK, Outcomes, None
<1>2. UNCHANGED <<strategy, sender, round, leg, half, seen, tests, first, second, knew>>
  BY DEF Join, race
<1>3. LookupTyped'
  BY <1>1, <1>2 DEF LookupTyped, LookupTypeOK, Open
<1>4. LookupKnown => LookupKnown'
  BY <1>2 DEF LookupKnown, Undecided, FallbackNeeded, NxLast, AnswerKept
<1>5. QED
  BY <1>3, <1>4 DEF LookupKept

\* The end of the lookup, in whichever way.
LEMMA LandInv ==
  ASSUME LookupTyped, Publish \/ Abort
  PROVE  LookupTyped' /\ LookupKnown'
<1>1. None \in Outcomes /\ Failure("err") \in Outcomes
  BY DEF Outcomes, None
<1>2. PICK r \in Outcomes : Land(r)
  <2>1. CASE Abort
    BY <1>1, <2>1 DEF Abort
  <2>2. CASE Publish
    BY <2>2 DEF Publish, LookupTyped
  <2>3. QED
    BY <2>1, <2>2
<1>3. /\ round' = "off" /\ first' = None /\ second' = None /\ knew' = {} /\ strategy' = strategy
      /\ leg' = Idle /\ half' = Blank /\ seen' = <<>> /\ tests' = {} /\ sender' = Nobody
  BY <1>2 DEF Land, Dropped
<1>4. at' \in [Queries -> {"idle", "lead", "wait"}] /\ outcome' \in [Queries -> Outcomes]
  BY <1>2 DEF Land, LookupTyped, LookupTypeOK
<1>5. LookupTyped'
  BY <1>1, <1>3, <1>4, QuietTyped
<1>6. LookupKnown'
  BY <1>3 DEF LookupKnown, Accords, Undecided, FallbackNeeded, NxLast, AnswerKept
<1>7. QED
  BY <1>5, <1>6

\* The time limit ends a lookup with a timeout, which claims nothing.
LEMMA CutInv ==
  ASSUME LookupTyped, Cut
  PROVE  LookupKept
<1>1. /\ round' = "done" /\ first' = Failure("timeout") /\ second' = None
      /\ leg' = Idle /\ half' = Blank /\ seen' = <<>> /\ tests' = {}
      /\ UNCHANGED <<strategy, at, sender, outcome, knew>>
  BY DEF Cut, Done, Dropped
<1>2. first' \in Outcomes /\ second' \in Outcomes /\ first'.code = "timeout"
  BY <1>1 DEF Outcomes, None, Failure
<1>3. LookupTyped'
  BY <1>1, <1>2, QuietTyped DEF LookupTyped, LookupTypeOK
<1>4. LookupKnown'
  BY <1>1, <1>2 DEF LookupKnown, Undecided, FallbackNeeded, NxLast, AnswerKept
<1>5. QED
  BY <1>3, <1>4 DEF LookupKept

\* Choosing between the two rounds never brings in a bare NXDOMAIN.
LEMMA ChooseInv ==
  ASSUME LookupTyped, Choose
  PROVE  LookupKept
<1>1. /\ round = "choose" /\ round' = "done"
      /\ first' = IF Conclusive(second) THEN second ELSE first
      /\ UNCHANGED <<strategy, at, sender, outcome, leg, half, seen, tests, second, knew>>
  BY DEF Choose, WantsFallback
<1>2. LookupTyped'
  <2>1. \A s \in Servers : leg[s] = "off"
    BY <1>1 DEF LookupTyped, LookupTypeOK
  <2>2. LookupTypeOK'
    BY <1>1, <2>1 DEF LookupTyped, LookupTypeOK
  <2>3. Open' = Open
    BY <1>1 DEF Open
  <2>4. QED
    BY <1>1, <2>2, <2>3 DEF LookupTyped
<1>3. ASSUME LookupKnown PROVE LookupKnown'
  <2>1. first'.code = "nx" => first' = first
    BY <1>1 DEF Conclusive
  <2>2. NxLast' /\ FallbackNeeded' /\ AnswerKept'
    BY <1>1, <1>3, <2>1 DEF LookupKnown, NxLast, FallbackNeeded, AnswerKept
  <2>3. QED
    BY <1>1, <1>3, <2>2 DEF LookupKnown, Undecided
<1>4. QED
  BY <1>2, <1>3 DEF LookupKept

\* The invariants hold initially.
LEMMA LookupInitial == LookupInit => LookupTyped /\ LookupKnown
<1> SUFFICES ASSUME LookupInit PROVE LookupTyped /\ LookupKnown
  OBVIOUS
<1>1. /\ strategy \in Strategies /\ at = [q \in Queries |-> "idle"] /\ sender = Nobody
      /\ outcome = [q \in Queries |-> None] /\ round = "off" /\ leg = Idle /\ half = Blank
      /\ seen = <<>> /\ tests = {} /\ first = None /\ second = None /\ knew = {}
  BY DEF LookupInit
<1>2. None \in Outcomes
  BY DEF Outcomes, None
<1>3. LookupTypeOK
  <2>1. half \in [Servers -> Outcomes] /\ outcome \in [Queries -> Outcomes]
    BY <1>1, <1>2 DEF Blank
  <2>2. leg \in [Servers -> {"off", "udp", "tcp", "retry"}] /\ \A s \in Servers : leg[s] = "off"
    BY <1>1 DEF Idle
  <2>3. QED
    BY <1>1, <2>1, <2>2, OpenFacts DEF LookupTypeOK
<1>4. Open = {} /\ \A s \in Servers : leg[s] = "off"
  BY <1>1 DEF Open, Idle
<1>5. LookupTyped
  BY <1>1, <1>2, <1>3, <1>4, OpenFacts, FS_EmptySet DEF LookupTyped
<1>6. LookupKnown
  BY <1>1 DEF LookupKnown, Undecided, FallbackNeeded, NxLast, AnswerKept
<1>7. QED
  BY <1>5, <1>6

\* Every step keeps them.
LEMMA LookupStepInv ==
  ASSUME LookupTyped, [LookupNext]_lookupVars
  PROVE  LookupKept
<1>1. CASE UNCHANGED lookupVars
  <2>1. LookupTyped'
    BY <1>1 DEF LookupTyped, LookupTypeOK, Open, lookupVars, race
  <2>2. LookupKnown => LookupKnown'
    BY <1>1 DEF LookupKnown, Undecided, FallbackNeeded, NxLast, AnswerKept, lookupVars, race
  <2>3. QED
    BY <2>1, <2>2 DEF LookupKept
<1>2. CASE LookupNext
  BY <1>2, LeadInv, FollowerInv, ServerInv, TestInv, ChooseInv, CutInv, LandInv
  DEF LookupNext, LookupKept
<1>3. QED
  BY <1>1, <1>2

\* Every variable of a lookup keeps its type, whatever servers reply and in
\* whatever order: exchanges are open only with servers of the round under way,
\* and no more replies are held than servers were asked (NameServerGroup::lookup,
\* race_servers, lookup_ip_with).
THEOREM LookupTypeCorrect == LookupSpec => []LookupTypeOK
<1>1. LookupTyped /\ [LookupNext]_lookupVars => LookupTyped'
  BY LookupStepInv DEF LookupKept
<1>2. LookupTyped => LookupTypeOK
  BY DEF LookupTyped
<1>3. QED
  BY LookupInitial, <1>1, <1>2, PTL DEF LookupSpec

\* The stronger invariant, of servers that put addresses into answers only.
LEMMA LookupInductive ==
  ASSUME Orderly
  PROVE  LookupSpec => [](LookupTyped /\ LookupKnown)
<1>1. LookupTyped /\ LookupKnown /\ [LookupNext]_lookupVars => (LookupTyped /\ LookupKnown)'
  BY LookupStepInv DEF LookupKept
<1>2. QED
  BY LookupInitial, <1>1, PTL DEF LookupSpec

\* A complete answer of an ordinary server is never lost, in any response mode,
\* for any number of servers and any order of their replies, truncations, failed
\* TCP legs and tests, unless the five seconds ran out or a truncated reply was
\* in the round (race_servers, pick_best, needs_fallback, lookup_ip_with).
THEOREM AnswerKeptHolds ==
  ASSUME Orderly
  PROVE  LookupSpec => []AnswerKept
<1>1. LookupTyped /\ LookupKnown => AnswerKept
  BY DEF LookupKnown
<1>2. QED
  BY LookupInductive, <1>1, PTL

\* A bare NXDOMAIN is the outcome of a lookup only if no ordinary server that
\* replied had anything complete and better to say; the fallback servers never
\* bring one in (response_rank, is_conclusive, needs_fallback).
THEOREM NxUnopposedHolds ==
  ASSUME Orderly
  PROVE  LookupSpec => []NxUnopposed
<1>1. LookupTyped /\ LookupKnown => NxUnopposed
  BY DEF LookupKnown, NxLast, NxUnopposed
<1>2. QED
  BY LookupInductive, <1>1, PTL

----------------------------------------------------------------------------
(* The speed test.                                                         *)

\* The inductive invariant: the two properties hold each other up.  That
\* some address can still reach the target keeps the race alive, and that no
\* address has reached it keeps the target in step with the answers.  Where no
\* address is repeated every probe is under way, answered or lost.
ProbesCounted == Distinct => \A i \in Ips : hits[i] + misses[i] + due[i] = Pings

RaceInv == RaceTypeOK /\ NeverRunsDry /\ ProbesCounted

\* Arithmetic on u8.
LEMMA WrapFacts ==
  /\ \A n \in Int : Wrap(n) \in 0 .. 255
  /\ \A n \in 0 .. 255 : Wrap(n) = n
BY DEF Wrap

\* What the recomputed target is: the maximum over all states.
LEMMA ReachFacts ==
  ASSUME NEW m \in [Ips -> 0 .. 255]
  PROVE  /\ Reach(m) \in Remaining(m) /\ Reach(m) \in Nat
         /\ \A k \in Remaining(m) : Reach(m) >= k
<1> DEFINE S == {255 - k : k \in Remaining(m)}
<1>1. Remaining(m) \subseteq 0 .. 255 /\ Remaining(m) # {}
  <2>1. \A j \in Ips : Wrap(Pings - m[j]) \in 0 .. 255
    BY WrapFacts, RaceAssumption
  <2>2. Pings \in 0 .. 255 /\ Ips # {}
    BY RaceAssumption
  <2>3. {Wrap(Pings - m[j]) : j \in Ips} \subseteq 0 .. 255
    BY <2>1, Zenon
  <2>4. {Wrap(Pings - m[j]) : j \in Ips} # {}
    BY <2>2, Zenon
  <2>5. (IF Distinct THEN {} ELSE {Pings}) \subseteq 0 .. 255
    BY <2>2, Zenon
  <2>6. QED
    BY <2>3, <2>4, <2>5, Zenon DEF Remaining
<1>2. S \subseteq Nat /\ S # {}
  BY <1>1
<1>3. PICK x \in S : \A y \in S : x <= y
  <2> HIDE DEF S
  <2>1. QED
    BY <1>2, Least
<1>4. PICK n \in Remaining(m) : x = 255 - n
  BY <1>3
<1>5. \A k \in Remaining(m) : n >= k
  <2>1. SUFFICES ASSUME NEW k \in Remaining(m) PROVE n >= k
    OBVIOUS
  <2>2. x <= 255 - k /\ k \in 0 .. 255 /\ n \in 0 .. 255
    BY <1>1, <1>3
  <2>3. QED
    BY <1>4, <2>2
<1>6. Reach(m) \in Remaining(m) /\ \A k \in Remaining(m) : Reach(m) >= k
  BY <1>4, <1>5 DEF Reach
<1>7. QED
  BY <1>1, <1>6

\* Over distinct addresses it is the most answers an address can still have,
\* reached by one.
LEMMA ReachDistinct ==
  ASSUME Distinct, NEW m \in [Ips -> 0 .. Pings]
  PROVE  /\ Reach(m) \in 0 .. Pings
         /\ \E j \in Ips : Reach(m) = Pings - m[j]
         /\ \A j \in Ips : Reach(m) >= Pings - m[j]
<1>1. m \in [Ips -> 0 .. 255]
  BY RaceAssumption
<1>2. \A j \in Ips : Pings - m[j] \in 0 .. Pings /\ Wrap(Pings - m[j]) = Pings - m[j]
  <2>1. SUFFICES ASSUME NEW j \in Ips
                 PROVE  Pings - m[j] \in 0 .. Pings /\ Wrap(Pings - m[j]) = Pings - m[j]
    OBVIOUS
  <2>2. m[j] \in 0 .. Pings /\ Pings \in 1 .. 255
    BY RaceAssumption
  <2>3. Pings - m[j] \in 0 .. Pings /\ Pings - m[j] \in 0 .. 255
    <3>1. \A n \in 1 .. 255 : \A k \in 0 .. n : n - k \in 0 .. n /\ n - k \in 0 .. 255
      OBVIOUS
    <3>2. QED
      BY <2>2, <3>1
  <2>4. QED
    BY <2>3, WrapFacts
<1>3. Remaining(m) = {Wrap(Pings - m[j]) : j \in Ips}
  BY Zenon DEF Remaining
<1>4. PICK j \in Ips : Reach(m) = Wrap(Pings - m[j])
  <2>1. Reach(m) \in Remaining(m)
    BY <1>1, ReachFacts
  <2>2. QED
    BY <1>3, <2>1, Zenon
<1>5. ASSUME NEW i \in Ips
      PROVE  Reach(m) >= Pings - m[i]
  <2>1. Wrap(Pings - m[i]) \in Remaining(m)
    BY <1>3, Zenon
  <2>2. Reach(m) >= Wrap(Pings - m[i])
    BY <1>1, <2>1, ReachFacts
  <2>3. QED
    BY <1>2, <2>2
<1>6. QED
  BY <1>2, <1>4, <1>5

\* With a repeated address it does not fall below PINGS_PER_IP.
LEMMA ReachRepeated ==
  ASSUME ~Distinct, NEW m \in [Ips -> 0 .. 255]
  PROVE  Reach(m) \in Nat /\ Reach(m) >= Pings
<1>1. Pings \in Remaining(m)
  BY DEF Remaining
<1>2. QED
  BY <1>1, ReachFacts

\* Settling names an address that has answered.
LEMMA SettleFacts ==
  ASSUME NEW h, NEW total, NEW best, Settle(h, total, best)
  PROVE  verdict' \in Ips /\ h[verdict'] > 0
BY DEF Settle, Winner

\* The invariant holds when the race begins.
LEMMA RaceInitial == RaceInit => RaceInv
<1> SUFFICES ASSUME RaceInit PROVE RaceInv
  OBVIOUS
<1>1. /\ copies \in [Ips -> 1 .. MaxCopies] /\ due = [i \in Ips |-> Pings * copies[i]]
      /\ \A i \in Ips : hits[i] = 0 /\ misses[i] = 0
      /\ target = Pings /\ verdict = Racing
  BY DEF RaceInit, Sent
<1>2. \A i \in Ips : Pings * copies[i] \in Nat /\ (copies[i] = 1 => Pings * copies[i] = Pings)
  <2>1. SUFFICES ASSUME NEW i \in Ips
                 PROVE  Pings * copies[i] \in Nat /\ (copies[i] = 1 => Pings * copies[i] = Pings)
    OBVIOUS
  <2>2. Pings \in Nat /\ copies[i] \in Nat
    BY <1>1, RaceAssumption
  <2>3. QED
    BY <2>2
<1>3. RaceTypeOK
  BY <1>1, <1>2, RaceAssumption DEF RaceInit, RaceTypeOK
<1>4. Distinct => \A i \in Ips : due[i] = Pings
  BY <1>1, <1>2 DEF Distinct
<1>5. NeverRunsDry /\ ProbesCounted
  BY <1>1, <1>4, RaceAssumption DEF NeverRunsDry, ProbesCounted, Outstanding
<1>6. QED
  BY <1>3, <1>5 DEF RaceInv

\* A reply keeps the invariant.
LEMMA PongInv ==
  ASSUME RaceInv, NEW i \in Ips, NEW ms \in Latencies, Pong(i, ms)
  PROVE  RaceInv'
<1> USE RaceAssumption
<1>1. /\ hits[i] < target /\ hits[i] + 1 \in 0 .. Pings /\ verdict = Racing
      /\ due[i] \in Nat \ {0} /\ target \in 0 .. Pings
  BY DEF RaceInv, RaceTypeOK, NeverRunsDry, Pong, Outstanding
<1>2. Wrap(hits[i] + 1) = hits[i] + 1
  BY <1>1, WrapFacts
<1>3. /\ hits' = [hits EXCEPT ![i] = hits[i] + 1] /\ due' = [due EXCEPT ![i] = due[i] - 1]
      /\ copies' = copies /\ misses' = misses /\ target' = target
  BY <1>2 DEF Pong
<1>4. /\ hits' \in [Ips -> 0 .. Pings] /\ due' \in [Ips -> Nat] /\ (Distinct' <=> Distinct)
      /\ hits'[i] = hits[i] + 1 /\ \A j \in Ips : j # i => hits'[j] = hits[j]
      /\ \A j \in Ips : j # i => due'[j] = due[j]
      /\ due'[i] = due[i] - 1
  <2>1. hits \in [Ips -> 0 .. Pings] /\ due \in [Ips -> Nat] /\ due[i] - 1 \in Nat
    BY <1>1 DEF RaceInv, RaceTypeOK
  <2>2. Distinct' <=> Distinct
    BY <1>3 DEF Distinct
  <2>3. QED
    BY <1>1, <1>3, <2>1, <2>2
<1>5. sum' \in [Ips -> Nat] /\ least' \in [Ips -> Nat]
  BY DEF RaceInv, RaceTypeOK, Pong
<1>6. ProbesCounted'
  <2>1. SUFFICES ASSUME Distinct, NEW j \in Ips PROVE hits'[j] + misses'[j] + due'[j] = Pings
    BY <1>4 DEF ProbesCounted
  <2>2. /\ hits[j] + misses[j] + due[j] = Pings
        /\ hits[j] \in Nat /\ misses[j] \in Nat /\ due[j] \in Nat
    BY <2>1 DEF RaceInv, RaceTypeOK, ProbesCounted
  <2>3. QED
    BY <1>3, <1>4, <2>2
<1>7. Distinct' => \A j \in Ips : hits'[j] + misses'[j] <= Pings
  <2>1. SUFFICES ASSUME Distinct', NEW j \in Ips PROVE hits'[j] + misses'[j] <= Pings
    OBVIOUS
  <2>2. hits'[j] + misses'[j] + due'[j] = Pings
    BY <1>6, <2>1 DEF ProbesCounted
  <2>4. hits'[j] \in Nat /\ misses'[j] \in Nat /\ due'[j] \in Nat
    BY <1>3, <1>4 DEF RaceInv, RaceTypeOK
  <2>3. QED
    BY <2>2, <2>4
<1>8. verdict' \in Ips \cup {Racing}
  BY SettleFacts DEF Pong
<1>9. RaceTypeOK'
  BY <1>3, <1>4, <1>5, <1>7, <1>8 DEF RaceInv, RaceTypeOK
<1>10. NeverRunsDry'
  <2>1. SUFFICES ASSUME verdict' = Racing PROVE NeverRunsDry'
    BY DEF NeverRunsDry
  <2>2. hits[i] + 1 # target
    BY <1>4, <2>1, SettleFacts DEF Pong
  <2>3. \A j \in Ips : hits'[j] < target'
    BY <1>1, <1>3, <1>4, <2>2 DEF RaceInv, RaceTypeOK, NeverRunsDry
  <2>4. ASSUME Distinct
        PROVE  \E j \in Ips : Outstanding(j)' /\ Pings - misses'[j] = target'
    <3>1. PICK j \in Ips : Pings - misses[j] = target
      BY <1>1, <2>4 DEF RaceInv, NeverRunsDry
    <3>2. hits'[j] + misses'[j] + due'[j] = Pings /\ hits'[j] < target' /\ misses'[j] = misses[j]
      BY <1>3, <1>4, <1>6, <2>3, <2>4 DEF ProbesCounted
    <3>a. hits'[j] \in Nat /\ misses'[j] \in Nat /\ due'[j] \in Nat
      BY <1>3, <1>4 DEF RaceInv, RaceTypeOK
    <3>3. due'[j] > 0
      BY <1>1, <1>3, <3>1, <3>2, <3>a
    <3>4. QED
      BY <1>3, <3>1, <3>2, <3>3 DEF Outstanding
  <2>5. QED
    BY <1>1, <1>3, <1>4, <2>3, <2>4 DEF RaceInv, NeverRunsDry
<1>11. QED
  BY <1>6, <1>9, <1>10 DEF RaceInv

\* After a lost probe the target is what the least unlucky address can reach;
\* with a repeated address it stays where it is.
LEMMA LostTarget ==
  ASSUME RaceInv, NEW i \in Ips, Lost(i)
  PROVE  /\ misses' \in [Ips -> 0 .. 255] /\ due' \in [Ips -> Nat]
         /\ ProbesCounted' /\ (Distinct' <=> Distinct)
         /\ target' \in 0 .. Pings /\ target' <= target
         /\ Distinct => /\ misses' \in [Ips -> 0 .. Pings]
                        /\ \A j \in Ips : hits[j] + misses'[j] <= Pings
                        /\ target' = Reach(misses')
         /\ ~Distinct => target' = target
<1> USE RaceAssumption
<1>1. /\ verdict = Racing /\ copies' = copies /\ hits' = hits
      /\ misses' = [misses EXCEPT ![i] = Wrap(misses[i] + 1)]
      /\ due' = [due EXCEPT ![i] = due[i] - 1] /\ due[i] \in Nat \ {0}
      /\ hits \in [Ips -> 0 .. Pings] /\ misses \in [Ips -> 0 .. 255] /\ due \in [Ips -> Nat]
      /\ target \in 0 .. Pings
      /\ target' = IF Reach(misses') < target THEN Reach(misses') ELSE target
  BY DEF Lost, RaceInv, RaceTypeOK, Outstanding
<1>2. misses' \in [Ips -> 0 .. 255] /\ due' \in [Ips -> Nat]
  <2>1. Wrap(misses[i] + 1) \in 0 .. 255
    BY <1>1, WrapFacts
  <2>2. due[i] - 1 \in Nat
    BY <1>1
  <2>3. QED
    BY <1>1, <2>1, <2>2
<1>3. Distinct' <=> Distinct
  BY <1>1 DEF Distinct
<1>4. PICK m : m = misses'
  OBVIOUS
<1>5. CASE Distinct
  <2>1. hits[i] + misses[i] + due[i] = Pings
    BY <1>5 DEF RaceInv, ProbesCounted
  <2>2. Wrap(misses[i] + 1) = misses[i] + 1 /\ misses[i] + 1 \in 0 .. Pings
    <3>1. misses[i] + 1 \in 0 .. 255 /\ misses[i] + 1 \in 0 .. Pings
      BY <1>1, <2>1
    <3>2. QED
      BY <3>1, WrapFacts
  <2>3. ASSUME NEW j \in Ips
        PROVE  /\ hits[j] + misses'[j] + due'[j] = Pings
               /\ misses'[j] \in 0 .. Pings /\ misses[j] <= misses'[j]
               /\ hits[j] + misses'[j] <= Pings
    <3>1. /\ hits[j] + misses[j] + due[j] = Pings
          /\ hits[j] \in Nat /\ misses[j] \in Nat /\ due[j] \in Nat
      BY <1>1, <1>5 DEF RaceInv, ProbesCounted
    <3>2. CASE j = i
      <4>1. misses'[j] = misses[j] + 1 /\ due'[j] = due[j] - 1
        BY <1>1, <2>2, <3>2
      <4>2. QED
        BY <1>1, <3>1, <3>2, <4>1
    <3>3. CASE j # i
      BY <1>1, <3>1, <3>3
    <3>4. QED
      BY <3>2, <3>3
  <2>4. misses' \in [Ips -> 0 .. Pings]
    BY <1>2, <2>3
  <2>5. /\ Reach(m) \in 0 .. Pings
        /\ \E j \in Ips : Reach(m) = Pings - m[j]
    BY <1>4, <1>5, <2>4, ReachDistinct
  <2>6. Reach(m) = Reach(misses')
    BY <1>4, <1>3 DEF Reach, Remaining
  <2>7. Reach(m) <= target
    <3>1. PICK j \in Ips : Reach(m) = Pings - m[j]
      BY <2>5
    <3>2. Pings - misses[j] <= target /\ misses[j] <= m[j] /\ misses[j] \in Nat /\ m[j] \in Nat
      BY <1>1, <1>4, <1>5, <2>3 DEF RaceInv, NeverRunsDry
    <3>3. QED
      BY <1>1, <3>1, <3>2
  <2>8. target' = Reach(misses') /\ target' \in 0 .. Pings /\ target' <= target
    BY <1>1, <2>5, <2>6, <2>7
  <2>9. ProbesCounted'
    BY <1>1, <2>3 DEF ProbesCounted
  <2>10. QED
    BY <1>2, <1>3, <1>5, <2>3, <2>4, <2>8, <2>9
<1>6. CASE ~Distinct
  <2>1. Reach(m) \in Nat /\ Reach(m) >= Pings
    BY <1>2, <1>4, <1>6, ReachRepeated
  <2>2. Reach(m) = Reach(misses')
    BY <1>4 DEF Reach, Remaining
  <2>3. target' = target
    BY <1>1, <2>1, <2>2
  <2>4. ProbesCounted'
    BY <1>3, <1>6 DEF ProbesCounted
  <2>5. QED
    BY <1>1, <1>2, <1>3, <1>6, <2>3, <2>4
<1>7. QED
  BY <1>5, <1>6

\* A lost probe keeps the invariant: the target falls to what can still be reached.
LEMMA LostInv ==
  ASSUME RaceInv, NEW i \in Ips, Lost(i)
  PROVE  RaceInv'
<1> USE RaceAssumption
<1>1. /\ misses' \in [Ips -> 0 .. 255] /\ due' \in [Ips -> Nat]
      /\ ProbesCounted' /\ (Distinct' <=> Distinct)
      /\ target' \in 0 .. Pings /\ target' <= target
      /\ Distinct => /\ misses' \in [Ips -> 0 .. Pings]
                     /\ \A j \in Ips : hits[j] + misses'[j] <= Pings
                     /\ target' = Reach(misses')
      /\ ~Distinct => target' = target
  BY LostTarget
<1>2. /\ copies' = copies /\ hits' = hits /\ sum' = sum /\ least' = least /\ verdict = Racing
      /\ hits \in [Ips -> 0 .. Pings] /\ target \in 0 .. Pings
  BY DEF Lost, RaceInv, RaceTypeOK
<1>3. verdict' \in Ips \cup {Racing, NoIp}
  BY SettleFacts DEF Lost
<1>4. RaceTypeOK'
  BY <1>1, <1>2, <1>3 DEF RaceInv, RaceTypeOK
<1>5. NeverRunsDry'
  <2>1. SUFFICES ASSUME verdict' = Racing PROVE NeverRunsDry'
    BY DEF NeverRunsDry
  <2>2. \A j \in Ips : hits[j] < target'
    <3>1. CASE target' = target
      BY <3>1, <1>2 DEF RaceInv, NeverRunsDry
    <3>2. CASE target' < target
      <4>1. ~Reached(target')
        BY <3>2, <2>1, SettleFacts DEF Lost
      <4>2. QED
        BY <4>1, <1>1, <1>2 DEF Reached
    <3>3. QED
      BY <3>1, <3>2, <1>1, <1>2
  <2>3. ASSUME Distinct
        PROVE  /\ \A j \in Ips : Pings - misses'[j] <= target'
               /\ \E j \in Ips : Outstanding(j)' /\ Pings - misses'[j] = target'
    <3>1. PICK m : m = misses'
      OBVIOUS
    <3>2. Reach(m) = target'
      BY <1>1, <2>3, <3>1 DEF Reach, Remaining
    <3>3. /\ \E j \in Ips : target' = Pings - m[j]
          /\ \A j \in Ips : target' >= Pings - m[j]
      BY <1>1, <2>3, <3>1, <3>2, ReachDistinct
    <3>4. PICK j \in Ips : target' = Pings - m[j]
      BY <3>3
    <3>5. /\ hits[j] + m[j] + due'[j] = Pings /\ hits[j] < target'
          /\ hits[j] \in Nat /\ m[j] \in Nat /\ due'[j] \in Nat
      BY <1>1, <1>2, <2>2, <2>3, <3>1 DEF ProbesCounted
    <3>6. due'[j] > 0
      BY <3>4, <3>5
    <3>7. \A k \in Ips : Pings - m[k] <= target'
      <4>1. \A k \in Ips : m[k] \in Nat
        BY <1>1, <2>3, <3>1
      <4>2. QED
        BY <1>1, <3>3, <4>1
    <3>8. QED
      BY <3>1, <3>4, <3>6, <3>7 DEF Outstanding
  <2>4. QED
    BY <1>1, <1>2, <2>2, <2>3 DEF RaceInv, NeverRunsDry
<1>6. QED
  BY <1>1, <1>4, <1>5 DEF RaceInv

\* The deadline and the end of the probes keep the invariant.
LEMMA DeadlineInv ==
  ASSUME RaceInv, Deadline \/ RunDry
  PROVE  RaceInv'
<1>1. /\ verdict' \in Ips \cup {NoIp}
      /\ UNCHANGED <<copies, due, hits, misses, sum, least, target>>
  BY SettleFacts DEF Deadline, RunDry
<1>2. QED
  BY <1>1, RaceAssumption DEF RaceInv, RaceTypeOK, NeverRunsDry, ProbesCounted, Distinct

\* So does a step of something else.
LEMMA RaceStutter ==
  ASSUME RaceInv, UNCHANGED raceVars
  PROVE  RaceInv'
BY DEF RaceInv, RaceTypeOK, NeverRunsDry, ProbesCounted, Distinct, Outstanding, raceVars

\* The invariant holds throughout the race.
LEMMA RaceInductive == RaceSpec => []RaceInv
<1>1. RaceInv /\ [RaceNext]_raceVars => RaceInv'
  BY PongInv, LostInv, DeadlineInv, RaceStutter DEF RaceNext
<1>2. QED
  BY <1>1, RaceInitial, PTL DEF RaceSpec

\* No count of a speed test leaves its range, also when the list of candidates
\* repeats addresses; and where it does not, no address is credited with more
\* probes than were sent, so that PINGS_PER_IP - failures never wraps
\* (dynamic_tier_ping).
THEOREM RaceTypeCorrect == RaceSpec => []RaceTypeOK
BY RaceInductive, PTL DEF RaceInv

\* Whether or not the list repeats an address, no address has reached the target
\* of a race without verdict.  If it repeats none, a probe that can reach it is
\* under way, so that the loop of race_logic never runs out of probes; if it
\* does, the target has never been lowered.
THEOREM NeverRunsDryHolds == RaceSpec => []NeverRunsDry
BY RaceInductive, PTL DEF RaceInv

----------------------------------------------------------------------------
(* The refinement.                                                         *)

Answered == {i \in Ips : hits[i] > 0}
Underway == \E i \in Ips : Outstanding(i)

\* An address with a probe due has one under way.
LEMMA DueUnderway ==
  ASSUME RaceInv, NEW i \in Ips, due[i] > 0
  PROVE  Underway
BY DEF Underway, Outstanding

\* A reply leaves the race open or names an address that has answered.
LEMMA PongPromise ==
  ASSUME RaceInv, NEW i \in Ips, NEW ms \in Latencies, Pong(i, ms)
  PROVE  Promise!Step
<1>1. /\ verdict = Racing /\ due[i] > 0 /\ copies' = copies
      /\ hits' = [hits EXCEPT ![i] = Wrap(hits[i] + 1)] /\ hits \in [Ips -> Nat]
      /\ hits[i] < target /\ target \in 0 .. 255
  BY RaceAssumption DEF Pong, Outstanding, RaceInv, RaceTypeOK, NeverRunsDry
<1>2. Wrap(hits[i] + 1) = hits[i] + 1
  <2>1. hits[i] + 1 \in 0 .. 255
    BY <1>1
  <2>2. QED
    BY <2>1, WrapFacts
<1>3. Answered \subseteq Answered' /\ Answered' \subseteq Ips
  BY <1>1, <1>2 DEF Answered
<1>4. verdict' = Racing \/ verdict' \in Answered'
  BY SettleFacts DEF Pong, Answered
<1>5. Underway /\ (Distinct' <=> Distinct)
  BY <1>1, DueUnderway DEF Distinct
<1>6. QED
  BY <1>1, <1>3, <1>4, <1>5 DEF Promise!Step, Answered, Underway

\* A lost probe leaves the race open, names such an address, or finds that
\* none can answer any more.
LEMMA LostPromise ==
  ASSUME RaceInv, NEW i \in Ips, Lost(i)
  PROVE  Promise!Step
<1> USE RaceAssumption
<1>1. /\ verdict = Racing /\ hits' = hits /\ hits \in [Ips -> Nat] /\ due[i] > 0 /\ copies' = copies
      /\ target \in Nat /\ hits[i] < target
  BY DEF Lost, Outstanding, RaceInv, RaceTypeOK, NeverRunsDry
<1>2. Answered' = Answered /\ Answered \subseteq Ips
  BY <1>1 DEF Answered
<1>3. Underway /\ (Distinct' <=> Distinct)
  BY <1>1, DueUnderway DEF Distinct
<1>4. CASE target' < target /\ target' = 0
  <2>1. Distinct
    BY <1>1, <1>4, LostTarget
  <2>2. PICK m : m = misses'
    OBVIOUS
  <2>3. /\ m \in [Ips -> 0 .. Pings] /\ Reach(m) = 0 /\ \A j \in Ips : hits[j] + m[j] <= Pings
    BY <1>3, <1>4, <2>1, <2>2, LostTarget DEF Reach, Remaining
  <2>4. \A j \in Ips : Pings - m[j] <= 0
    <3>1. SUFFICES ASSUME NEW j \in Ips PROVE Pings - m[j] <= 0
      OBVIOUS
    <3>2. Reach(m) >= Pings - m[j] /\ m[j] \in Nat
      BY <2>1, <2>3, ReachDistinct
    <3>3. QED
      BY <2>3, <3>2
  <2>5. \A j \in Ips : hits[j] = 0
    BY <1>1, <2>3, <2>4
  <2>6. Answered' = {} /\ verdict' = NoIp
    BY <1>1, <1>2, <1>4, <2>5 DEF Answered, Lost
  <2>7. QED
    BY <1>1, <1>2, <1>3, <2>6 DEF Promise!Step, Answered, Underway
<1>5. CASE ~(target' < target /\ target' = 0)
  <2>1. verdict' = Racing \/ verdict' \in Answered'
    BY <1>2, <1>5, SettleFacts DEF Lost, Answered
  <2>2. QED
    BY <1>1, <1>2, <1>3, <2>1 DEF Promise!Step, Answered, Underway
<1>6. QED
  BY <1>4, <1>5

\* The deadline settles the race.
LEMMA DeadlinePromise ==
  ASSUME RaceInv, Deadline
  PROVE  Promise!Step
<1>1. /\ verdict = Racing /\ hits' = hits
      /\ (Underway' <=> Underway) /\ (Distinct' <=> Distinct)
  BY DEF Deadline, Underway, Outstanding, Distinct
<1>2. verdict' \in Answered' \/ (Answered' = {} /\ verdict' = NoIp)
  BY <1>1, SettleFacts DEF Deadline, Answered
<1>3. QED
  BY <1>1, <1>2 DEF Promise!Step, Answered, Underway

\* Only a race whose list repeats an address runs out of probes.
LEMMA RunDryPromise ==
  ASSUME RaceInv, RunDry
  PROVE  Promise!Step
<1>1. /\ verdict = Racing /\ verdict' = NoIp /\ hits' = hits
      /\ ~Underway /\ (Underway' <=> Underway) /\ (Distinct' <=> Distinct)
  BY DEF RunDry, Underway, Outstanding, Distinct
<1>2. ~Distinct
  BY <1>1 DEF RaceInv, NeverRunsDry, Underway
<1>3. QED
  BY <1>1, <1>2 DEF Promise!Step, Underway

\* The race implements SpeedTest: whoever asked for the test is given an
\* address that answered a probe, or none, and none only if no address did or
\* the list repeats one and every probe is back; the verdict never changes
\* (dynamic_tier_ping).
THEOREM RaceKeepsPromise == RaceSpec => KeepsPromise
<1>1. RaceInit => Promise!Init
  <2>1. ASSUME RaceInit PROVE Underway
    <3>1. RaceInv /\ verdict = Racing
      BY <2>1, RaceInitial DEF RaceInit
    <3>2. PICK i \in Ips : due[i] = Pings * copies[i] /\ copies[i] \in 1 .. MaxCopies
      BY <2>1, RaceAssumption DEF RaceInit, Sent
    <3>3. PICK c \in Nat : c = copies[i] /\ c > 0
      BY <3>2, RaceAssumption
    <3>4. Pings * c > 0
      BY <3>3, RaceAssumption
    <3>5. QED
      BY <3>2, <3>3, <3>4 DEF Underway, Outstanding
  <2>2. QED
    BY <2>1 DEF RaceInit, Promise!Init, Underway
<1>2. RaceInv /\ [RaceNext]_raceVars =>
        [Promise!Step]_<<{i \in Ips : hits[i] > 0}, \E i \in Ips : Outstanding(i), ~Distinct, verdict>>
  <2>1. ASSUME UNCHANGED raceVars
        PROVE  UNCHANGED <<{i \in Ips : hits[i] > 0}, \E i \in Ips : Outstanding(i), ~Distinct, verdict>>
    BY <2>1 DEF raceVars, Outstanding, Distinct
  <2>2. QED
    BY <2>1, PongPromise, LostPromise, DeadlinePromise, RunDryPromise DEF RaceNext
<1>3. QED
  BY <1>1, <1>2, RaceInductive, PTL DEF RaceSpec, KeepsPromise, Promise!Spec

----------------------------------------------------------------------------
(* The dual-stack selection.                                               *)

Steps == {"idle", "bypass", "join", "race", "own", "sibling", "done"}
Records == [kind : {"ips", "soa", "bare", "err", "unknown"}, ttl : Nat]

\* The variables have their types.
DualTyped ==
  /\ setup \in [select : BOOLEAN, force : BOOLEAN, soa : BOOLEAN]
  /\ step \in [Families -> Steps]
  /\ got \in [Families -> [Families -> Records]]
  /\ \A h, f \in Families : got[h][f].kind = "ips" => got[h][f].ttl # 0
  /\ heat \in [Families -> [mode : Nat, first : Families \cup {"none"}]]
  /\ hit \in [Families -> SUBSET Families]
  /\ emptied \in [Families -> SUBSET Families]
  /\ reply \in [Families -> Records]
  /\ stored \in [Families -> Records]

\* Until a race is decided only the family that came first in the current mode
\* can have answered: an answer in an earlier mode would have ended the race.
RaceOpen ==
  \A h \in Families :
    /\ step[h] \in {"idle", "bypass", "join"} => hit[h] = {} /\ heat[h].first = "none"
    /\ step[h] = "race" => hit[h] \subseteq {heat[h].first}
    /\ step[h] \in {"idle", "bypass", "join", "race"} => emptied[h] = {}

\* A query that bypasses the middleware runs no lookup.
BypassBlind == \A h \in Families : step[h] \in {"idle", "bypass"} => got[h][h] = Unknown

\* What the code does with every handler whose own lookup did not fail: also when
\* the other one failed and its own found no address.
OwnKept ==
  \A h \in Families :
    step[h] = "done" /\ got[h][h].kind # "err" /\ got[h][h] # Unknown =>
      reply[h].kind = IF got[h][h].kind = "ips" /\ h \notin emptied[h] THEN "ips" ELSE "soa"

DualInv == DualTyped /\ RaceOpen /\ BypassBlind /\ EmptiedForCause /\ OwnKept /\ NeverOutlives

\* There are two families, each the other's other.
LEMMA OtherFacts ==
  /\ Other("A") = "AAAA" /\ Other("AAAA") = "A"
  /\ \A f \in Families : Other(f) \in Families /\ Other(f) # f
<1>1. Other("A") \in Families /\ Other("A") # "A"
  BY DEF Other, Families
<1>2. Other("AAAA") \in Families /\ Other("AAAA") # "AAAA"
  BY DEF Other, Families
<1>3. QED
  BY <1>1, <1>2 DEF Families

\* What the middlewares below return is a record, never "unknown".
LEMMA ReplyFacts ==
  ASSUME NEW r \in DualReplies
  PROVE  /\ r \in Records /\ r # Unknown
         /\ r.kind = "ips" => r.ttl # 0
<1>1. r \in [kind : {"ips", "soa", "bare", "err"}, ttl : Nat]
  BY DualAssumption DEF Lookups
<1>2. r.kind # "unknown"
  BY <1>1
<1>3. QED
  BY <1>1, <1>2, DualAssumption DEF Records, Unknown

\* The aligned TTL is a natural, and no longer than the TTL of a reply that has
\* records (aligned_ttl_for).
LEMMA AlignedFacts ==
  ASSUME NEW m \in Nat, NEW n \in Nat
  PROVE  /\ Aligned(m, n) \in Nat
         /\ m # 0 => Aligned(m, n) <= m
         /\ n # 0 => Aligned(m, n) <= n
BY DualAssumption DEF Aligned

\* A washed reply is a record, and shows addresses only if they were found and
\* their family was not emptied (process_resp).
LEMMA WashedFacts ==
  ASSUME DualTyped, NEW h \in Families, NEW f \in Families
  PROVE  /\ Washed(h, f) \in Records
         /\ Washed(h, f).kind = IF f \notin emptied[h] /\ got[h][f].kind = "ips" THEN "ips" ELSE "soa"
         /\ Washed(h, f).kind = "ips" => got[h][f].kind = "ips" /\ Washed(h, f).ttl <= got[h][f].ttl
<1>1. got[h]["A"].ttl \in Nat /\ got[h]["AAAA"].ttl \in Nat
  BY DEF DualTyped, Families, Records
<1>2. PICK n : n = Aligned(got[h]["A"].ttl, got[h]["AAAA"].ttl)
  OBVIOUS
<1>3. n \in Nat
  BY <1>1, <1>2, AlignedFacts
<1>4. got[h][f].ttl # 0 => n <= got[h][f].ttl
  <2>1. CASE f = "A"
    BY <1>1, <1>2, <2>1, AlignedFacts
  <2>2. CASE f = "AAAA"
    BY <1>1, <1>2, <2>2, AlignedFacts
  <2>3. QED
    BY <2>1, <2>2 DEF Families
<1>5. Washed(h, f).ttl = n
  BY <1>2 DEF Washed
<1>6. Washed(h, f).kind = IF f \notin emptied[h] /\ got[h][f].kind = "ips" THEN "ips" ELSE "soa"
  BY DEF Washed
<1>7. Washed(h, f) \in Records
  BY <1>2, <1>3 DEF Washed, Records
<1>8. QED
  BY <1>4, <1>5, <1>6, <1>7 DEF DualTyped

\* The invariant holds initially.
LEMMA DualInitial == DualInit => DualInv
<1> SUFFICES ASSUME DualInit PROVE DualInv
  OBVIOUS
<1>1. Unknown \in Records /\ Unknown.kind = "unknown"
  BY DEF Unknown, Records
<1>2. DualTyped
  BY <1>1 DEF DualInit, DualTyped, NoHeat, Steps
<1>3. RaceOpen /\ BypassBlind /\ EmptiedForCause
  BY DEF DualInit, RaceOpen, BypassBlind, EmptiedForCause, NoHeat
<1>4. OwnKept /\ NeverOutlives
  BY <1>1 DEF DualInit, OwnKept, NeverOutlives
<1>5. QED
  BY <1>2, <1>3, <1>4 DEF DualInv

\* A handler that begins or bypasses keeps the invariant (handle).
LEMMA EnterInv ==
  ASSUME DualInv, (\E h \in Families : Enter(h)) \/ Bypass
  PROVE  DualInv'
<1>1. ASSUME NEW h \in Families, Enter(h) PROVE DualInv'
  <2>1. DualTyped'
    BY <1>1 DEF DualInv, DualTyped, Enter, Goes, Steps
  <2>2. RaceOpen' /\ BypassBlind' /\ EmptiedForCause'
    BY <1>1 DEF DualInv, DualTyped, RaceOpen, BypassBlind, EmptiedForCause, Enter, Goes
  <2>3. OwnKept' /\ NeverOutlives'
    BY <1>1 DEF DualInv, DualTyped, OwnKept, NeverOutlives, Enter, Goes
  <2>4. QED
    BY <2>1, <2>2, <2>3 DEF DualInv
<1>2. ASSUME Bypass PROVE DualInv'
  <2>1. PICK r \in DualReplies :
          /\ r.kind = "soa"
          /\ reply' = [reply EXCEPT !["AAAA"] = r]
          /\ stored' = [stored EXCEPT !["AAAA"] = r]
    BY <1>2 DEF Bypass
  <2>2. r \in Records
    BY ReplyFacts
  <2>3. DualTyped'
    BY <1>2, <2>1, <2>2 DEF DualInv, DualTyped, Bypass, Goes, Steps, Families
  <2>4. RaceOpen' /\ BypassBlind' /\ EmptiedForCause'
    BY <1>2 DEF DualInv, DualTyped, RaceOpen, BypassBlind, EmptiedForCause, Bypass, Goes, Families
  <2>5. OwnKept'
    BY <1>2, <2>1 DEF DualInv, DualTyped, OwnKept, BypassBlind, Bypass, Goes, Families
  <2>6. NeverOutlives'
    BY <1>2, <2>1 DEF DualInv, DualTyped, NeverOutlives, Bypass
  <2>7. QED
    BY <2>3, <2>4, <2>5, <2>6 DEF DualInv
<1>3. QED
  BY <1>1, <1>2

\* A lookup that ends overwrites no earlier one (the two joined futures).
LEMMA FoundInv ==
  ASSUME DualInv, NEW h \in Families, NEW f \in Families, NEW r \in DualReplies, Found(h, f, r)
  PROVE  DualInv'
<1>1. r \in Records /\ (r.kind = "ips" => r.ttl # 0)
  BY ReplyFacts
<1>2. /\ UNCHANGED <<setup, step, heat, hit, emptied, reply, stored>>
      /\ step[h] = "join" /\ got[h][f] = Unknown
      /\ got' = [got EXCEPT ![h][f] = r]
  BY DEF Found
<1>3. \A i, j \in Families : got'[i][j] = IF i = h /\ j = f THEN r ELSE got[i][j]
  BY <1>2 DEF DualInv, DualTyped
<1>4. DualTyped'
  BY <1>1, <1>2, <1>3 DEF DualInv, DualTyped
<1>5. RaceOpen' /\ BypassBlind' /\ EmptiedForCause'
  BY <1>2, <1>3 DEF DualInv, RaceOpen, BypassBlind, EmptiedForCause
<1>6. OwnKept'
  BY <1>2, <1>3 DEF DualInv, OwnKept
<1>7. NeverOutlives'
  BY <1>2, <1>3 DEF DualInv, NeverOutlives, Unknown
<1>8. QED
  BY <1>4, <1>5, <1>6, <1>7 DEF DualInv

\* Joining the two lookups fails the query only if its own lookup failed.
LEMMA JoinInv ==
  ASSUME DualInv, NEW h \in Families, Join2(h)
  PROVE  DualInv'
<1>1. Broken \in Records
  BY DEF Broken, Records
<1>2. PICK s \in {"race", "own", "done"} :
        /\ step[h] = "join" /\ step' = [step EXCEPT ![h] = s]
        /\ s = "done" => got[h][h].kind = "err"
        /\ reply' = reply \/ reply' = [reply EXCEPT ![h] = Broken]
        /\ s # "done" => reply' = reply
        /\ UNCHANGED <<setup, got, heat, hit, emptied, stored>>
  <2>1. CASE Tolerable(got[h][h], got[h][Other(h)])
    BY <2>1 DEF Join2, Goes
  <2>2. CASE ~Tolerable(got[h][h], got[h][Other(h)])
    BY <2>2 DEF Join2, Goes, Tolerable
  <2>3. QED
    BY <2>1, <2>2
<1>3. \A i \in Families : step'[i] = IF i = h THEN s ELSE step[i]
  BY <1>2 DEF DualInv, DualTyped
<1>4. \A i \in Families : i # h => reply'[i] = reply[i]
  BY <1>2 DEF DualInv, DualTyped
<1>5. DualTyped'
  <2>1. step' \in [Families -> Steps]
    BY <1>2 DEF DualInv, DualTyped, Steps
  <2>2. reply' \in [Families -> Records]
    BY <1>1, <1>2 DEF DualInv, DualTyped
  <2>3. QED
    BY <1>2, <2>1, <2>2 DEF DualInv, DualTyped
<1>6. RaceOpen' /\ BypassBlind' /\ EmptiedForCause'
  <2>1. RaceOpen'
    BY <1>2, <1>3 DEF DualInv, RaceOpen
  <2>2. BypassBlind'
    BY <1>2, <1>3 DEF DualInv, BypassBlind
  <2>3. EmptiedForCause'
    BY <1>2 DEF DualInv, EmptiedForCause
  <2>4. QED
    BY <2>1, <2>2, <2>3
<1>7. OwnKept'
  BY <1>2, <1>3, <1>4 DEF DualInv, OwnKept
<1>8. NeverOutlives'
  BY DEF DualInv, NeverOutlives, Join2
<1>9. QED
  BY <1>5, <1>6, <1>7, <1>8 DEF DualInv

\* Storing the washed replies (insert_full_response, extra_cache_records).
LEMMA KeepInv ==
  ASSUME DualInv, NEW h \in Families, KeepOwn(h) \/ KeepSibling(h)
  PROVE  DualInv'
<1>1. PICK f \in Families :
        /\ f = IF step[h] = "own" THEN h ELSE Other(h)
        /\ stored' = [stored EXCEPT ![f] = Washed(h, f)]
  BY OtherFacts DEF KeepOwn, KeepSibling
<1>2. Washed(h, f) \in Records /\ Washed(h, h) \in Records
  BY WashedFacts DEF DualInv
<1>3. UNCHANGED <<setup, got, heat, hit, emptied>>
  BY DEF KeepOwn, KeepSibling
<1>4. DualTyped'
  <2>1. step' \in [Families -> Steps]
    BY DEF DualInv, DualTyped, KeepOwn, KeepSibling, Goes, Steps
  <2>2. reply' = reply \/ reply' = [reply EXCEPT ![h] = Washed(h, h)]
    BY DEF KeepOwn, KeepSibling
  <2>3. reply' \in [Families -> Records] /\ stored' \in [Families -> Records]
    BY <1>1, <1>2, <2>2 DEF DualInv, DualTyped
  <2>4. QED
    BY <1>3, <2>1, <2>3 DEF DualInv, DualTyped
<1>5. RaceOpen' /\ BypassBlind' /\ EmptiedForCause'
  BY <1>3 DEF DualInv, DualTyped, RaceOpen, BypassBlind, EmptiedForCause, KeepOwn, KeepSibling, Goes
<1>6. OwnKept'
  <2>1. CASE KeepOwn(h)
    BY <1>3, <2>1 DEF DualInv, DualTyped, OwnKept, KeepOwn, Goes
  <2>2. CASE KeepSibling(h)
    <3>1. \A i \in Families : /\ step'[i] = IF i = h THEN "done" ELSE step[i]
                              /\ reply'[i] = IF i = h THEN Washed(h, h) ELSE reply[i]
      BY <2>2 DEF DualInv, DualTyped, KeepSibling, Goes
    <3>2. Washed(h, h).kind = IF h \notin emptied[h] /\ got[h][h].kind = "ips" THEN "ips" ELSE "soa"
      BY WashedFacts DEF DualInv
    <3>3. QED
      BY <1>3, <3>1, <3>2 DEF DualInv, OwnKept
  <2>3. QED
    BY <2>1, <2>2
<1>7. NeverOutlives'
  <2>1. \A g \in Families : stored'[g] = IF g = f THEN Washed(h, f) ELSE stored[g]
    BY <1>1 DEF DualInv, DualTyped
  <2>2. QED
    BY <1>3, <2>1, WashedFacts DEF DualInv, NeverOutlives
<1>8. QED
  BY <1>4, <1>5, <1>6, <1>7 DEF DualInv

\* What a step of a race does: it goes on, with at most the family that came
\* first among those that answered, or it ends in a tie or with a winner whose
\* rival has not answered (which_faster).
RaceEffect(h) ==
  \/ step'[h] = "race" /\ emptied'[h] = {} /\ hit'[h] \subseteq {heat'[h].first}
  \/ step'[h] = "own" /\ emptied'[h] = {}
  \/ /\ step'[h] = "own"
     /\ \E w \in Families : /\ w \in hit'[h] /\ Other(w) \notin hit'[h]
                           /\ emptied'[h] = Loser(w)

\* The probes and the timer of a race have that effect and no other.
LEMMA RaceFacts ==
  ASSUME DualInv, NEW h \in Families,
         GraceOver(h) \/ \E f \in Families, ok \in BOOLEAN : Probed(h, f, ok)
  PROVE  /\ DualTyped' /\ RaceEffect(h) /\ step[h] = "race"
         /\ UNCHANGED <<setup, got, reply, stored>>
         /\ \A i \in Families \ {h} :
              /\ step'[i] = step[i] /\ heat'[i] = heat[i]
              /\ hit'[i] = hit[i] /\ emptied'[i] = emptied[i]
<1>1. /\ step[h] = "race" /\ hit[h] \subseteq {heat[h].first} /\ emptied[h] = {}
      /\ heat[h].first \in Families \cup {"none"} /\ heat[h].mode \in Nat
  BY DEF GraceOver, Probed, DualInv, RaceOpen, DualTyped
<1>2. \A w \in Families : Loser(w) \in SUBSET Families
  BY OtherFacts DEF Loser
<1>3. UNCHANGED <<setup, got, reply, stored>>
  BY DEF GraceOver, Probed
<1>4. \E s \in {"race", "own"} : step' = [step EXCEPT ![h] = s]
  BY <1>1 DEF GraceOver, Probed, Won, Tie, Goes, DualInv, DualTyped
<1>5. \E x \in [mode : Nat, first : Families \cup {"none"}] : heat' = [heat EXCEPT ![h] = x]
  BY <1>1 DEF GraceOver, Probed, Won, Tie, DualInv, DualTyped
<1>6. \E x \in SUBSET Families : hit' = [hit EXCEPT ![h] = x]
  BY DEF GraceOver, Probed, DualInv, DualTyped
<1>7. \E x \in SUBSET Families : emptied' = [emptied EXCEPT ![h] = x]
  BY <1>1, <1>2 DEF GraceOver, Probed, Won, Tie, DualInv, DualTyped, Families
<1>8. DualTyped'
  BY <1>3, <1>4, <1>5, <1>6, <1>7 DEF DualInv, DualTyped, Steps
<1>9. RaceEffect(h)
  <2>1. CASE GraceOver(h)
    BY <1>1, <2>1, OtherFacts DEF GraceOver, RaceEffect, Won, Goes, DualInv, DualTyped
  <2>2. ASSUME NEW f \in Families, NEW ok \in BOOLEAN, Probed(h, f, ok) PROVE RaceEffect(h)
    BY <1>1, <2>2, OtherFacts DEF Probed, RaceEffect, Won, Tie, Goes, DualInv, DualTyped, Families
  <2>3. QED
    BY <2>1, <2>2
<1>10. QED
  BY <1>1, <1>3, <1>4, <1>5, <1>6, <1>7, <1>8, <1>9 DEF DualInv, DualTyped

\* A race keeps the invariant.
LEMMA RacingInv ==
  ASSUME DualInv, NEW h \in Families,
         GraceOver(h) \/ \E f \in Families, ok \in BOOLEAN : Probed(h, f, ok)
  PROVE  DualInv'
<1>1. RaceOpen'
  BY RaceFacts DEF DualInv, RaceOpen, RaceEffect
<1>2. BypassBlind'
  BY RaceFacts DEF DualInv, BypassBlind, RaceEffect
<1>3. EmptiedForCause'
  <2>1. ASSUME NEW i \in Families, NEW f \in emptied'[i]
        PROVE  Other(f) \in hit'[i] /\ f \notin hit'[i] /\ (f = "A" => setup'.force)
    <3>1. CASE i # h
      BY <2>1, <3>1, RaceFacts DEF DualInv, EmptiedForCause
    <3>2. CASE i = h
      <4>1. PICK w \in Families : w \in hit'[h] /\ Other(w) \notin hit'[h] /\ emptied'[h] = Loser(w)
        BY <2>1, <3>2, RaceFacts DEF RaceEffect
      <4>2. f = Other(w) /\ (w = "A" \/ setup.force)
        BY <2>1, <3>2, <4>1 DEF Loser
      <4>3. QED
        BY <3>2, <4>1, <4>2, OtherFacts, RaceFacts DEF Families
    <3>3. QED
      BY <3>1, <3>2
  <2>2. QED
    BY <2>1 DEF EmptiedForCause
<1>4. OwnKept'
  BY RaceFacts DEF DualInv, OwnKept, RaceEffect
<1>5. NeverOutlives'
  BY RaceFacts DEF DualInv, NeverOutlives
<1>6. QED
  BY <1>1, <1>2, <1>3, <1>4, <1>5, RaceFacts DEF DualInv

\* The invariant holds throughout.
LEMMA DualInductive == DualSpec => []DualInv
<1>1. DualInv /\ UNCHANGED dualVars => DualInv'
  BY DEF DualInv, DualTyped, RaceOpen, BypassBlind, EmptiedForCause, OwnKept, NeverOutlives,
         dualVars
<1>2. DualInv /\ [DualNext]_dualVars => DualInv'
  BY <1>1, EnterInv, FoundInv, JoinInv, KeepInv, RacingInv DEF DualNext
<1>3. QED
  BY DualInitial, <1>2, PTL DEF DualSpec

\* Whatever order probes, modes and the timer end in, a family is emptied only
\* when an address of the other one answered and none of its own did
\* (which_faster, handle).
THEOREM EmptiedForCauseHolds == DualSpec => []EmptiedForCause
<1>1. DualInv => EmptiedForCause
  BY DEF DualInv
<1>2. QED
  BY DualInductive, <1>1, PTL

\* Addresses that the query's own lookup found reach the client unless the other
\* family won the race, also when the sibling lookup failed (handle).
THEOREM OwnAnswerSurvivesHolds == DualSpec => []OwnAnswerSurvives
<1>1. DualInv => OwnAnswerSurvives
  BY DEF DualInv, OwnKept, OwnAnswerSurvives
<1>2. QED
  BY DualInductive, <1>1, PTL

\* What either handler stores for either family never outlives the reply of that
\* family that one of the handlers was given (aligned_ttl_for, process_resp, insert_full_response).
THEOREM NeverOutlivesHolds == DualSpec => []NeverOutlives
<1>1. DualInv => NeverOutlives
  BY DEF DualInv
<1>2. QED
  BY DualInductive, <1>1, PTL

----------------------------------------------------------------------------
(* The three together.                                                     *)

\* A query that goes through a lookup, a speed test and a dual-stack selection
\* is a behaviour of each: a step of one leaves the state of the others alone.
\* So what is proved of each holds where they run together.
THEOREM PartsHold == FairSpec => LookupSpec /\ RaceSpec /\ DualSpec
<1>1. Init => LookupInit /\ RaceInit /\ DualInit
  BY DEF Init
<1>2. [Next]_vars => [LookupNext]_lookupVars
  BY DEF Next, vars
<1>3. [Next]_vars => [RaceNext]_raceVars
  BY DEF Next, vars
<1>4. [Next]_vars => [DualNext]_dualVars
  BY DEF Next, vars
<1>5. QED
  BY <1>1, <1>2, <1>3, <1>4, PTL DEF FairSpec, LookupSpec, RaceSpec, DualSpec

\* Every variable of a lookup and of a speed test keeps its type where they run
\* as steps of one query (NameServerGroup::lookup, race_servers, dynamic_tier_ping).
THEOREM UpstreamTypeCorrect == FairSpec => []UpstreamTypeOK
<1>1. LookupTypeOK /\ RaceTypeOK => UpstreamTypeOK
  BY DEF UpstreamTypeOK
<1>2. QED
  BY <1>1, PartsHold, LookupTypeCorrect, RaceTypeCorrect, PTL
=============================================================================
