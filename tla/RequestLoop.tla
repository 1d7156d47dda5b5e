---------------------------- MODULE RequestLoop ----------------------------
(***************************************************************************)
(* How a request gets through the server (app.rs, server/mod.rs, dns_mw.rs *)
(* and the query limit of server/limit.rs): DnsHandle::send puts it into a *)
(* bounded queue and waits on a oneshot; the main loop drains the queue in *)
(* batches, reads the current handler, and spawns a task per request that  *)
(* gets a permit; the task enters the query limit, runs the middlewares    *)
(* and answers.  At each stage a request may be dropped; the counters and  *)
(* permits are given back by guards.                                       *)
(***************************************************************************)
EXTENDS Naturals, Sequences, FiniteSets

CONSTANTS
  Slots,       \* callers of DnsHandle::send (bound on requests at a time)
  QueueCap,    \* capacity of the channel
  BatchSize,   \* BATCH_SIZE
  FgPermits,   \* permits of foreground_concurrency
  BgPermits,   \* permits of background_concurrency
  QueryLimit,  \* max-query-limit, 0 for none
  MaxGen       \* bound on the number of reloads

ASSUME SlotAssumption == IsFiniteSet(Slots)

ASSUME LoopAssumption ==
  /\ {QueueCap, BatchSize, FgPermits, BgPermits} \subseteq Nat \ {0}
  /\ {QueryLimit, MaxGen} \subseteq Nat

\* A client's query, a background query (is_background), a message that ends
\* before the middlewares (a response, an unreadable message, FormErr, NotImp).
Kinds == {"client", "background", "noise"}

\* Stages of a request: in the queue, in the batch, spawned, running with a
\* QueryGuard, refused by the limit, answered with its guards still alive.
Stages == {"free", "queued", "batch", "spawned", "running", "retract", "leaving"}

VARIABLES
  stage,    \* the stage of each request
  kind,     \* what it is
  asked,    \* history, until it is dispatched: the handler generation in
            \* place when it was sent
  waits,    \* whether its caller still waits on the oneshot
  queue,    \* the channel
  batch,    \* what the main loop has drained and not dispatched yet
  loop,     \* the main loop: "select", "drained", "batch" or "beat"
  gen,      \* mw_handler, by generation
  using,    \* the handler the batch is run by, 0 outside a batch
  fg, bg,   \* permits in use
  active,   \* AppState.active_queries
  inflight  \* QueryLimiter.in_flight

counters == <<fg, bg, active, inflight>>
loopVars == <<stage, kind, asked, waits, queue, batch, loop, gen, using, fg, bg, active, inflight>>

LoopInit ==
  /\ stage = [r \in Slots |-> "free"]
  /\ kind = [r \in Slots |-> "client"]
  /\ asked = [r \in Slots |-> 0]
  /\ waits = [r \in Slots |-> FALSE]
  /\ queue = <<>> /\ batch = <<>>
  /\ loop = "select"
  /\ gen = 0 /\ using = 0
  /\ fg = 0 /\ bg = 0 /\ active = 0 /\ inflight = 0

Reaches(r, s) == stage' = [stage EXCEPT ![r] = s]

\* The request is gone; its slot is as it was.
Forget(r) ==
  /\ Reaches(r, "free")
  /\ kind' = [kind EXCEPT ![r] = "client"]

\* The oneshot is answered or its sender dropped: the caller goes on.
Answered(r) == waits' = [waits EXCEPT ![r] = FALSE]

----------------------------------------------------------------------------
(* DnsHandle::send.  A full queue is answered at once: Refused on a stream, *)
(* silence on UDP; nothing is kept of the request.                          *)

Send(r, k) ==
  /\ stage[r] = "free" /\ ~waits[r] /\ Len(queue) < QueueCap
  /\ Reaches(r, "queued")
  /\ kind' = [kind EXCEPT ![r] = k]
  /\ asked' = [asked EXCEPT ![r] = gen]
  /\ waits' = [waits EXCEPT ![r] = TRUE]
  /\ queue' = Append(queue, r)
  /\ UNCHANGED <<batch, loop, gen, using, counters>>

\* A UDP listener that is shut down aborts the tasks that wait for answers.
Hangup(r) ==
  /\ waits[r] /\ kind[r] # "background"
  /\ Answered(r)
  /\ UNCHANGED <<stage, kind, asked, queue, batch, loop, gen, using, counters>>

----------------------------------------------------------------------------
(* The main loop.                                                          *)

\* recv_many takes what is there, up to the batch size.
Drain ==
  LET n == IF Len(queue) < BatchSize THEN Len(queue) ELSE BatchSize
      taken == {queue[i] : i \in 1 .. n} IN
  /\ loop = "select" /\ n > 0
  /\ batch' = SubSeq(queue, 1, n)
  /\ queue' = SubSeq(queue, n + 1, Len(queue))
  /\ stage' = [r \in Slots |-> IF r \in taken THEN "batch" ELSE stage[r]]
  /\ loop' = "drained"
  /\ UNCHANGED <<kind, asked, waits, gen, using, counters>>

\* Mutant: the loop goes on with the handler it had.
HandlerKept == using

\* mw_handler.read().await.clone()
HandlerNow == gen

ReadHandler ==
  /\ loop = "drained"
  /\ using' = HandlerNow
  /\ loop' = "batch"
  /\ UNCHANGED <<stage, kind, asked, waits, queue, batch, gen, counters>>

Permitted(r) == IF kind[r] = "background" THEN bg < BgPermits ELSE fg < FgPermits

\* One request of the batch; the last one ends it.
NextInBatch ==
  /\ batch' = Tail(batch)
  /\ loop' = IF Len(batch) = 1 THEN "select" ELSE "batch"
  /\ using' = IF Len(batch) = 1 THEN 0 ELSE using
  /\ asked' = [asked EXCEPT ![Head(batch)] = 0]

SpawnTask ==
  LET r == Head(batch) IN
  /\ loop = "batch" /\ Permitted(r)
  /\ NextInBatch
  /\ Reaches(r, "spawned")
  /\ IF kind[r] = "background" THEN bg' = bg + 1 /\ UNCHANGED fg
                               ELSE fg' = fg + 1 /\ UNCHANGED bg
  /\ UNCHANGED <<kind, waits, queue, gen, active, inflight>>

\* Mutant: a request without a permit is put aside and its sender kept.
DropKeepsSender ==
  /\ loop = "batch" /\ ~Permitted(Head(batch))
  /\ NextInBatch
  /\ UNCHANGED <<stage, kind, waits, queue, gen, counters>>

\* No permit: the request and its oneshot sender are dropped.
DropRequest ==
  LET r == Head(batch) IN
  /\ loop = "batch" /\ ~Permitted(r)
  /\ NextInBatch
  /\ Forget(r)
  /\ Answered(r)
  /\ UNCHANGED <<queue, gen, counters>>

\* The heartbeat branch runs inside the loop: meanwhile nothing is drained.
HeartbeatStart ==
  /\ loop = "select"
  /\ loop' = "beat"
  /\ UNCHANGED <<stage, kind, asked, waits, queue, batch, gen, using, counters>>

HeartbeatEnd ==
  /\ loop = "beat"
  /\ loop' = "select"
  /\ UNCHANGED <<stage, kind, asked, waits, queue, batch, gen, using, counters>>

\* update_middleware_handler installs a new handler.
NewHandler ==
  /\ gen < MaxGen
  /\ gen' = gen + 1
  /\ UNCHANGED <<stage, kind, asked, waits, queue, batch, loop, using, counters>>

----------------------------------------------------------------------------
(* The task of a request: ActiveQueryGuard, process, process_inner.  Nobody *)
(* but the status page reads active_queries, so its guard is taken with the *)
(* step that follows.                                                       *)

\* What is no query ends here: an error is sent or the sender dropped.
DropNoise(r) ==
  /\ stage[r] = "spawned" /\ kind[r] = "noise"
  /\ active' = active + 1
  /\ Reaches(r, "leaving")
  /\ Answered(r)
  /\ UNCHANGED <<kind, asked, queue, batch, loop, gen, using, fg, bg, inflight>>

\* Mutant: the limit is checked before the query is counted.
OverLimitLate(r) == kind[r] # "background" /\ QueryLimit > 0 /\ inflight > QueryLimit

\* enter_query, with the query itself counted.
OverLimit(r) == kind[r] # "background" /\ QueryLimit > 0 /\ inflight + 1 > QueryLimit

\* Mutant: a background query is not counted, its guard gives back all the same.
CountedClient(r) == IF kind[r] = "background" THEN 0 ELSE 1

\* Every query is counted, so that every guard has something to give back.
Counted(r) == 1

EnterQuery(r) ==
  /\ stage[r] = "spawned" /\ kind[r] # "noise"
  /\ active' = active + 1
  /\ inflight' = inflight + Counted(r)
  /\ Reaches(r, IF OverLimit(r) THEN "retract" ELSE "running")
  /\ UNCHANGED <<kind, asked, waits, queue, batch, loop, gen, using, fg, bg>>

\* The count is taken back and REFUSED sent.
RetractQuery(r) ==
  /\ stage[r] = "retract"
  /\ inflight' = inflight - 1
  /\ Reaches(r, "leaving")
  /\ Answered(r)
  /\ UNCHANGED <<kind, asked, queue, batch, loop, gen, using, fg, bg, active>>

\* The middlewares return an answer or an error, or they panic and
\* catch_unwind answers SERVFAIL: the QueryGuard is dropped either way.
FinishQuery(r) ==
  /\ stage[r] = "running"
  /\ inflight' = inflight - 1
  /\ Reaches(r, "leaving")
  /\ Answered(r)
  /\ UNCHANGED <<kind, asked, queue, batch, loop, gen, using, fg, bg, active>>

\* Mutant: the permit stays with a task that is gone.
EndTaskKeepsPermit(r) ==
  /\ stage[r] = "leaving"
  /\ active' = active - 1
  /\ Forget(r)
  /\ UNCHANGED <<asked, waits, queue, batch, loop, gen, using, fg, bg, inflight>>

\* The task ends: ActiveQueryGuard and permit are dropped.
EndTask(r) ==
  /\ stage[r] = "leaving"
  /\ active' = active - 1
  /\ IF kind[r] = "background" THEN bg' = bg - 1 /\ UNCHANGED fg
                               ELSE fg' = fg - 1 /\ UNCHANGED bg
  /\ Forget(r)
  /\ UNCHANGED <<asked, waits, queue, batch, loop, gen, using, inflight>>

----------------------------------------------------------------------------

Task(r) ==
  \/ DropNoise(r) \/ EnterQuery(r) \/ RetractQuery(r) \/ FinishQuery(r) \/ EndTask(r)

LoopStep == ReadHandler \/ SpawnTask \/ DropRequest \/ HeartbeatEnd

LoopNext ==
  \/ \E r \in Slots : Hangup(r) \/ Task(r) \/ \E k \in Kinds : Send(r, k)
  \/ Drain \/ LoopStep \/ HeartbeatStart
  \/ NewHandler

LoopSpec == LoopInit /\ [][LoopNext]_loopVars

\* Spawned tasks and the loop run on (every upstream exchange has a timeout, a
\* heartbeat ends); select! chooses at random among its ready branches, so the
\* heartbeat does not keep the queue from being drained.
LoopFairness ==
  /\ \A r \in Slots : WF_loopVars(Task(r))
  /\ WF_loopVars(LoopStep)
  /\ SF_loopVars(Drain)

LoopFairSpec == LoopSpec /\ LoopFairness

----------------------------------------------------------------------------
(* Properties.                                                             *)

At(stages) == {r \in Slots : stage[r] \in stages}
InTask == At({"spawned", "running", "retract", "leaving"})
Foreground == {r \in Slots : kind[r] # "background"}

\* Every variable has its type; the counters are never decremented below zero
\* and the queue never outgrows its channel.
LoopTypeOK ==
  /\ stage \in [Slots -> Stages]
  /\ kind \in [Slots -> Kinds]
  /\ asked \in [Slots -> 0 .. MaxGen]
  /\ waits \in [Slots -> BOOLEAN]
  /\ queue \in Seq(Slots) /\ Len(queue) <= QueueCap
  /\ batch \in Seq(Slots) /\ Len(batch) <= BatchSize
  /\ loop \in {"select", "drained", "batch", "beat"}
  /\ gen \in 0 .. MaxGen /\ using \in 0 .. MaxGen
  /\ {fg, bg, active, inflight} \subseteq Nat

\* No path out of the request pipeline leaks: permits in use, active_queries
\* and in_flight are the requests that hold a permit, an ActiveQueryGuard or a
\* QueryGuard, through refusals, drops, panics and callers that are gone.
CountersExact ==
  /\ fg = Cardinality(InTask \cap Foreground) /\ fg <= FgPermits
  /\ bg = Cardinality(InTask \ Foreground) /\ bg <= BgPermits
  /\ active = Cardinality(InTask \ At({"spawned"}))
  /\ inflight = Cardinality(At({"running", "retract"}))

\* max-query-limit holds although it is counted without a lock: at most that
\* many client queries are being processed at a time.
QueryLimitHeld ==
  QueryLimit > 0 => Cardinality(At({"running"}) \cap Foreground) <= QueryLimit

\* A reload is visible to every request sent after it: the handler a batch is
\* dispatched with is not older than the one in place when its requests were
\* sent.
FreshHandler ==
  loop = "batch" => \A i \in 1 .. Len(batch) : asked[batch[i]] <= using

\* Nobody waits for ever: the caller of send gets an answer, or its sender is
\* dropped, wherever the request is refused (queue, permits, limit, panic).
CallersReleased == \A r \in Slots : waits[r] ~> ~waits[r]

\* Background queries do not use up max-query-limit, as enter_query says: a
\* client query is refused only when, itself included, more than that many
\* client queries have been counted.  It does not hold: they are counted too.
BackgroundFree ==
  [][\A r \in Slots : stage[r] # "retract" /\ stage'[r] = "retract" =>
       Cardinality(At({"running", "retract"}) \cap Foreground) >= QueryLimit]_loopVars
=============================================================================
