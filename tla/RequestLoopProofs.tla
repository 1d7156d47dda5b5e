------------------------- MODULE RequestLoopProofs -------------------------
(***************************************************************************)
(* The way of a request through the server, for any number of callers and  *)
(* any capacities, permits and limits.                                     *)
(***************************************************************************)
EXTENDS RequestLoop, FiniteSetTheorems, SequenceTheorems, TLAPS

\* A line of requests: each is at the line's stage and stands in it once.
InLine(line, s) ==
  /\ \A i \in 1 .. Len(line) : stage[line[i]] = s
  /\ \A i, j \in 1 .. Len(line) : line[i] = line[j] => i = j

\* The channel and the batch hold each request once, and the loop is inside a
\* batch exactly while there is one.
LinesOK ==
  /\ InLine(queue, "queued") /\ InLine(batch, "batch")
  /\ loop \in {"drained", "batch"} <=> Len(batch) > 0

\* No request was sent under a handler that is yet to come.
HandlersOK == FreshHandler /\ \A r \in Slots : asked[r] <= gen

LoopInv == LoopTypeOK /\ LinesOK /\ HandlersOK /\ CountersExact /\ QueryLimitHeld

----------------------------------------------------------------------------
(* Cardinalities.                                                          *)

\* One request more among those that hold something.
LEMMA OneMore ==
  ASSUME NEW S \in SUBSET Slots, NEW T, NEW r \in Slots, r \notin S, T = S \cup {r}
  PROVE  Cardinality(T) = Cardinality(S) + 1
BY FS_AddElement, FS_Subset, SlotAssumption

\* One request less.
LEMMA OneLess ==
  ASSUME NEW S \in SUBSET Slots, NEW T, NEW r \in S, T = S \ {r}
  PROVE  /\ Cardinality(T) = Cardinality(S) - 1
         /\ Cardinality(S) \in Nat /\ Cardinality(S) >= 1
<1>1. IsFiniteSet(S) /\ IsFiniteSet(T)
  BY FS_Subset, SlotAssumption
<1>2. QED
  BY <1>1, FS_RemoveElement, FS_CardinalityType

\* A part is not larger than the whole.
LEMMA NotLarger ==
  ASSUME NEW S \in SUBSET Slots, NEW T \in SUBSET S
  PROVE  /\ Cardinality(T) \in Nat /\ Cardinality(S) \in Nat
         /\ Cardinality(T) <= Cardinality(S)
BY FS_Subset, FS_CardinalityType, SlotAssumption

----------------------------------------------------------------------------
(* What leaves a part of the invariant alone.                              *)

\* The requests that hold something, by what they hold.
HoldFg == InTask \cap Foreground
HoldBg == InTask \ Foreground
HoldActive == InTask \ At({"spawned"})
HoldQuery == At({"running", "retract"})
Served == At({"running"}) \cap Foreground

\* All of them are sets of requests.
LEMMA HoldersAreSlots ==
  /\ HoldFg \subseteq Slots /\ HoldBg \subseteq Slots /\ HoldActive \subseteq Slots
  /\ HoldQuery \subseteq Slots /\ Served \subseteq HoldQuery
BY DEF HoldFg, HoldBg, HoldActive, HoldQuery, Served, InTask, At, Foreground

\* The limit holds as long as no query begins to be served.
LEMMA ServedShrinks ==
  ASSUME QueryLimitHeld, Served' \subseteq Served
  PROVE  QueryLimitHeld'
<1>1. Served \subseteq Slots
  BY HoldersAreSlots
<1>2. /\ Cardinality(Served') \in Nat /\ Cardinality(Served) \in Nat
      /\ Cardinality(Served') <= Cardinality(Served)
  BY <1>1, NotLarger
<1>3. QED
  BY <1>2, LoopAssumption DEF QueryLimitHeld, Served

\* Requests on their way to a task hold nothing.
LEMMA CountersKept ==
  ASSUME CountersExact, QueryLimitHeld, UNCHANGED counters,
         \A r \in Slots :
           \/ stage'[r] = stage[r] /\ kind'[r] = kind[r]
           \/ stage[r] \in {"free", "queued", "batch"} /\ stage'[r] \in {"free", "queued", "batch"}
  PROVE  CountersExact' /\ QueryLimitHeld'
<1>1. /\ HoldFg' = HoldFg /\ HoldBg' = HoldBg /\ HoldActive' = HoldActive
      /\ HoldQuery' = HoldQuery /\ Served' = Served
  BY DEF HoldFg, HoldBg, HoldActive, HoldQuery, Served, InTask, At, Foreground
<1>2. CountersExact'
  BY <1>1 DEF CountersExact, counters, HoldFg, HoldBg, HoldActive, HoldQuery
<1>3. QED
  BY <1>1, <1>2, ServedShrinks

\* A step outside the lines.
LEMMA LinesKept ==
  ASSUME LoopTypeOK, LinesOK, UNCHANGED <<queue, batch>>,
         loop' \in {"drained", "batch"} <=> loop \in {"drained", "batch"},
         \A r \in Slots : stage[r] \in {"queued", "batch"} => stage'[r] = stage[r]
  PROVE  LinesOK'
<1>1. /\ \A i \in 1 .. Len(queue) : queue[i] \in Slots
      /\ \A i \in 1 .. Len(batch) : batch[i] \in Slots
  BY DEF LoopTypeOK
<1>2. QED
  BY <1>1 DEF LinesOK, InLine

\* A step that neither sends nor dispatches.
LEMMA HandlersKept ==
  ASSUME HandlersOK, UNCHANGED <<asked, batch, gen, using>>, loop' = "batch" => loop = "batch"
  PROVE  HandlersOK'
BY DEF HandlersOK, FreshHandler

----------------------------------------------------------------------------
(* The lines.                                                              *)

\* No request, no handler but the first.
LEMMA LoopInitial == LoopInit => LoopInv
<1> SUFFICES ASSUME LoopInit PROVE LoopInv
  OBVIOUS
<1>1. LoopTypeOK
  BY LoopAssumption DEF LoopInit, LoopTypeOK, Stages, Kinds
<1>2. LinesOK
  BY DEF LoopInit, LinesOK, InLine
<1>3. HandlersOK
  BY DEF LoopInit, HandlersOK, FreshHandler
<1>4. HoldFg = {} /\ HoldBg = {} /\ HoldActive = {} /\ HoldQuery = {} /\ Served = {}
  BY DEF LoopInit, HoldFg, HoldBg, HoldActive, HoldQuery, Served, InTask, At, Foreground
<1>5. Cardinality({}) = 0
  BY FS_EmptySet
<1>6. CountersExact
  <2>1. 0 <= FgPermits /\ 0 <= BgPermits
    BY LoopAssumption
  <2>2. fg = 0 /\ bg = 0 /\ active = 0 /\ inflight = 0
    BY DEF LoopInit
  <2>3. /\ InTask \cap Foreground = {} /\ InTask \ Foreground = {}
        /\ InTask \ At({"spawned"}) = {} /\ At({"running", "retract"}) = {}
    BY <1>4 DEF HoldFg, HoldBg, HoldActive, HoldQuery
  <2>4. QED
    BY <1>5, <2>1, <2>2, <2>3 DEF CountersExact
<1>7. QueryLimitHeld
  BY <1>4, <1>5, LoopAssumption DEF QueryLimitHeld, Served
<1>8. QED
  BY <1>1, <1>2, <1>3, <1>6, <1>7 DEF LoopInv

\* A request enters the channel at its end, once.
LEMMA SendKeeps == ASSUME LoopInv, NEW r \in Slots, NEW k \in Kinds, Send(r, k) PROVE LoopInv'
<1>1. LoopTypeOK'
  <2>1. queue' \in Seq(Slots) /\ Len(queue') <= QueueCap
    BY LoopAssumption DEF LoopInv, LoopTypeOK, Send
  <2>2. stage' \in [Slots -> Stages] /\ kind' \in [Slots -> Kinds] /\ asked' \in [Slots -> 0 .. MaxGen]
    BY DEF LoopInv, LoopTypeOK, Send, Reaches, Stages
  <2>3. waits' \in [Slots -> BOOLEAN]
    BY DEF LoopInv, LoopTypeOK, Send
  <2>4. QED
    BY <2>1, <2>2, <2>3 DEF LoopInv, LoopTypeOK, Send, counters
<1>2. \A x \in Slots : stage'[x] = IF x = r THEN "queued" ELSE stage[x]
  BY DEF LoopInv, LoopTypeOK, Send, Reaches
<1>3. stage[r] = "free" /\ batch' = batch /\ loop' = loop /\ gen' = gen /\ using' = using
  BY DEF Send
<1>4. \A i \in 1 .. Len(queue) : queue[i] \in Slots /\ queue[i] # r
  BY <1>3 DEF LoopInv, LoopTypeOK, LinesOK, InLine
<1>5. \A i \in 1 .. Len(batch) : batch[i] \in Slots /\ batch[i] # r
  BY <1>3 DEF LoopInv, LoopTypeOK, LinesOK, InLine
<1>6. LinesOK'
  <2>1. /\ Len(queue') = Len(queue) + 1 /\ Len(queue) \in Nat
        /\ \A i \in 1 .. Len(queue') : queue'[i] = IF i <= Len(queue) THEN queue[i] ELSE r
    BY DEF LoopInv, LoopTypeOK, Send
  <2>2. \A i \in 1 .. Len(queue') : stage'[queue'[i]] = "queued"
    BY <1>2, <1>4, <2>1 DEF LoopInv, LinesOK, InLine
  <2>3. \A i, j \in 1 .. Len(queue') : queue'[i] = queue'[j] => i = j
    BY <1>4, <2>1 DEF LoopInv, LinesOK, InLine
  <2>4. \A i \in 1 .. Len(batch) : stage'[batch[i]] = "batch"
    BY <1>2, <1>5 DEF LoopInv, LinesOK, InLine
  <2>5. QED
    BY <1>3, <2>2, <2>3, <2>4 DEF LoopInv, LinesOK, InLine
<1>7. HandlersOK'
  <2>1. \A x \in Slots : asked'[x] = IF x = r THEN gen ELSE asked[x]
    BY DEF LoopInv, LoopTypeOK, Send
  <2>2. gen \in Nat
    BY DEF LoopInv, LoopTypeOK
  <2>3. QED
    BY <1>3, <1>5, <2>1, <2>2 DEF LoopInv, HandlersOK, FreshHandler
<1>8. CountersExact' /\ QueryLimitHeld'
  <2>1. \A x \in Slots : x # r => kind'[x] = kind[x]
    BY DEF LoopInv, LoopTypeOK, Send
  <2>2. UNCHANGED counters
    BY DEF Send
  <2>3. QED
    BY <1>2, <1>3, <2>1, <2>2, CountersKept DEF LoopInv
<1>9. QED
  BY <1>1, <1>6, <1>7, <1>8 DEF LoopInv

\* recv_many: the head of the channel becomes the batch.
LEMMA DrainKeeps == ASSUME LoopInv, Drain PROVE LoopInv'
<1>1. PICK n \in Nat : n = IF Len(queue) < BatchSize THEN Len(queue) ELSE BatchSize
  BY LoopAssumption DEF LoopInv, LoopTypeOK
<1>2. /\ n > 0 /\ n <= Len(queue) /\ n <= BatchSize /\ Len(queue) \in Nat /\ queue \in Seq(Slots)
      /\ loop = "select" /\ loop' = "drained"
      /\ batch' = SubSeq(queue, 1, n) /\ queue' = SubSeq(queue, n + 1, Len(queue))
      /\ stage' = [r \in Slots |-> IF r \in {queue[i] : i \in 1 .. n} THEN "batch" ELSE stage[r]]
      /\ UNCHANGED <<kind, asked, waits, gen, using, counters>>
  <2>1. Len(queue) \in Nat /\ queue \in Seq(Slots) /\ BatchSize \in Nat
    BY LoopAssumption DEF LoopInv, LoopTypeOK
  <2>2. n <= Len(queue) /\ n <= BatchSize
    BY <1>1, <2>1
  <2>3. n > 0 /\ loop = "select" /\ loop' = "drained"
    BY <1>1 DEF Drain
  <2>4. batch' = SubSeq(queue, 1, n) /\ queue' = SubSeq(queue, n + 1, Len(queue))
    BY <1>1 DEF Drain
  <2>5. stage' = [r \in Slots |-> IF r \in {queue[i] : i \in 1 .. n} THEN "batch" ELSE stage[r]]
    BY <1>1 DEF Drain
  <2>6. UNCHANGED <<kind, asked, waits, gen, using, counters>>
    BY DEF Drain
  <2>7. QED
    BY <2>1, <2>2, <2>3, <2>4, <2>5, <2>6
<1>3. /\ batch' \in Seq(Slots) /\ Len(batch') = n
      /\ \A i \in 1 .. n : batch'[i] = queue[i]
  BY <1>2, SubSeqProperties
<1>4. /\ queue' \in Seq(Slots) /\ Len(queue') = Len(queue) - n
      /\ \A i \in 1 .. Len(queue) - n : queue'[i] = queue[n + i]
  <2>1. queue' \in Seq(Slots) /\ Len(queue') = IF n + 1 <= Len(queue) THEN Len(queue) - (n + 1) + 1 ELSE 0
    BY <1>2, SubSeqProperties
  <2>2. \A i \in 1 .. Len(queue) - (n + 1) + 1 : queue'[i] = queue[(n + 1) + i - 1]
    BY <1>2, SubSeqProperties
  <2>3. \A i \in 1 .. Len(queue) - n : i \in 1 .. Len(queue) - (n + 1) + 1 /\ (n + 1) + i - 1 = n + i
    BY <1>2
  <2>4. \A i \in 1 .. Len(queue) - n : queue'[i] = queue[n + i]
    BY <2>2, <2>3
  <2>5. QED
    BY <1>2, <2>1, <2>4
<1>5. LoopTypeOK'
  <2>1. stage' \in [Slots -> Stages]
    BY <1>2 DEF LoopInv, LoopTypeOK, Stages
  <2>2. Len(queue') <= QueueCap /\ Len(batch') <= BatchSize
    BY <1>2, <1>3, <1>4, LoopAssumption DEF LoopInv, LoopTypeOK
  <2>3. QED
    BY <1>2, <1>3, <1>4, <2>1, <2>2 DEF LoopInv, LoopTypeOK, counters
<1>6. \A i \in 1 .. Len(queue) : queue[i] \in Slots /\ stage[queue[i]] = "queued"
  BY <1>2 DEF LoopInv, LinesOK, InLine
<1>7. \A i, j \in 1 .. Len(queue) : queue[i] = queue[j] => i = j
  BY DEF LoopInv, LinesOK, InLine
<1>8. LinesOK'
  <2>1. \A i \in 1 .. n : stage'[batch'[i]] = "batch"
    BY <1>2, <1>3, <1>6
  <2>2. \A i, j \in 1 .. n : batch'[i] = batch'[j] => i = j
    BY <1>2, <1>3, <1>7
  <2>3. ASSUME NEW i \in 1 .. Len(queue')
        PROVE  stage'[queue'[i]] = "queued"
    <3>1. n + i \in 1 .. Len(queue) /\ queue'[i] = queue[n + i] /\ \A j \in 1 .. n : j \in 1 .. Len(queue) /\ j # n + i
      BY <1>2, <1>4
    <3>2. queue[n + i] \notin {queue[j] : j \in 1 .. n}
      BY <1>7, <3>1
    <3>3. QED
      BY <1>2, <1>6, <3>1, <3>2
  <2>4. ASSUME NEW i \in 1 .. Len(queue'), NEW j \in 1 .. Len(queue'), queue'[i] = queue'[j]
        PROVE  i = j
    <3>1. n + i \in 1 .. Len(queue) /\ n + j \in 1 .. Len(queue) /\ queue[n + i] = queue[n + j]
      BY <1>2, <1>4, <2>4
    <3>2. n + i = n + j
      BY <1>7, <3>1
    <3>3. QED
      BY <1>2, <1>4, <3>2
  <2>5. InLine(batch, "batch")'
    BY <1>3, <2>1, <2>2 DEF InLine
  <2>6. InLine(queue, "queued")'
    BY <2>3, <2>4 DEF InLine
  <2>7. QED
    BY <1>2, <1>3, <2>5, <2>6 DEF LinesOK
<1>9. HandlersOK'
  BY <1>2 DEF LoopInv, HandlersOK, FreshHandler
<1>10. CountersExact' /\ QueryLimitHeld'
  <2>1. ASSUME NEW r \in Slots
        PROVE  \/ stage'[r] = stage[r] /\ kind'[r] = kind[r]
               \/ stage[r] \in {"free", "queued", "batch"} /\ stage'[r] \in {"free", "queued", "batch"}
    <3>1. CASE r \in {queue[i] : i \in 1 .. n}
      <4>1. stage[r] = "queued"
        BY <1>2, <1>6, <3>1
      <4>2. QED
        BY <1>2, <3>1, <4>1
    <3>2. CASE r \notin {queue[i] : i \in 1 .. n}
      BY <1>2, <3>2
    <3>3. QED
      BY <3>1, <3>2
  <2>2. QED
    BY <1>2, <2>1, CountersKept DEF LoopInv
<1>11. QED
  BY <1>5, <1>8, <1>9, <1>10 DEF LoopInv

\* The head of the batch leaves it, whatever becomes of it.
LEMMA BatchStep ==
  ASSUME LoopInv, loop = "batch", NextInBatch, UNCHANGED <<queue, gen>>,
         \A x \in Slots : x # Head(batch) => stage'[x] = stage[x]
  PROVE  /\ LinesOK' /\ HandlersOK'
         /\ batch' \in Seq(Slots) /\ Len(batch') <= BatchSize
         /\ loop' \in {"select", "drained", "batch", "beat"} /\ using' \in 0 .. MaxGen
         /\ asked' \in [Slots -> 0 .. MaxGen]
         /\ Head(batch) \in Slots /\ stage[Head(batch)] = "batch"
<1>1. PICK r : r = Head(batch)
  OBVIOUS
<1>2. /\ batch \in Seq(Slots) /\ Len(batch) \in Nat /\ Len(batch) > 0 /\ Len(batch) <= BatchSize
      /\ r = batch[1] /\ r \in Slots /\ stage[r] = "batch"
  BY <1>1 DEF LoopInv, LoopTypeOK, LinesOK, InLine
<1>3. /\ batch' \in Seq(Slots) /\ Len(batch') = Len(batch) - 1
      /\ \A i \in 1 .. Len(batch') : i + 1 \in 1 .. Len(batch) /\ i + 1 # 1 /\ batch'[i] = batch[i + 1]
  BY <1>2 DEF NextInBatch
<1>4. /\ \A i \in 1 .. Len(batch) : batch[i] \in Slots /\ stage[batch[i]] = "batch"
      /\ \A i, j \in 1 .. Len(batch) : batch[i] = batch[j] => i = j
  BY <1>2 DEF LoopInv, LinesOK, InLine
<1>5. \A i \in 1 .. Len(batch') : batch'[i] \in Slots /\ batch'[i] # r /\ stage'[batch'[i]] = "batch"
  BY <1>1, <1>2, <1>3, <1>4
<1>6. LinesOK'
  <2>1. \A i \in 1 .. Len(queue) : queue[i] \in Slots /\ queue[i] # r /\ stage[queue[i]] = "queued"
    BY <1>2 DEF LoopInv, LoopTypeOK, LinesOK, InLine
  <2>2. InLine(queue, "queued")'
    BY <1>1, <2>1 DEF LoopInv, LinesOK, InLine
  <2>3. ASSUME NEW i \in 1 .. Len(batch'), NEW j \in 1 .. Len(batch'), batch'[i] = batch'[j]
        PROVE  i = j
    <3>1. i + 1 = j + 1
      BY <1>3, <1>4, <2>3
    <3>2. QED
      BY <1>2, <1>3, <3>1
  <2>4. loop' \in {"drained", "batch"} <=> Len(batch') > 0
    BY <1>2, <1>3 DEF NextInBatch
  <2>5. QED
    BY <1>5, <2>2, <2>3, <2>4 DEF LinesOK, InLine
<1>7. \A x \in Slots : asked'[x] = IF x = r THEN 0 ELSE asked[x]
  BY <1>1 DEF LoopInv, LoopTypeOK, NextInBatch
<1>8. HandlersOK'
  <2>1. gen \in Nat
    BY DEF LoopInv, LoopTypeOK
  <2>2. \A x \in Slots : asked'[x] <= gen'
    BY <1>7, <2>1 DEF LoopInv, HandlersOK
  <2>3. ASSUME loop' = "batch", NEW i \in 1 .. Len(batch')
        PROVE  asked'[batch'[i]] <= using'
    <3>1. using' = using
      BY <2>3 DEF NextInBatch
    <3>2. asked'[batch'[i]] = asked[batch[i + 1]] /\ i + 1 \in 1 .. Len(batch)
      BY <1>3, <1>5, <1>7
    <3>3. asked[batch[i + 1]] <= using
      BY <3>2 DEF LoopInv, HandlersOK, FreshHandler
    <3>4. QED
      BY <3>1, <3>2, <3>3
  <2>4. QED
    BY <2>2, <2>3 DEF HandlersOK, FreshHandler
<1>9. using' \in 0 .. MaxGen /\ asked' \in [Slots -> 0 .. MaxGen]
  <2>1. 0 \in 0 .. MaxGen
    BY LoopAssumption
  <2>2. using' \in 0 .. MaxGen
    BY <2>1 DEF LoopInv, LoopTypeOK, NextInBatch
  <2>3. asked' = [asked EXCEPT ![r] = 0]
    BY <1>1 DEF NextInBatch
  <2>4. QED
    BY <2>1, <2>2, <2>3 DEF LoopInv, LoopTypeOK
<1>10. QED
  BY <1>1, <1>2, <1>3, <1>6, <1>8, <1>9, LoopAssumption DEF NextInBatch

\* A request gets a permit and becomes a task.
LEMMA SpawnTaskKeeps == ASSUME LoopInv, SpawnTask PROVE LoopInv'
<1>1. PICK r : r = Head(batch)
  OBVIOUS
<1>2. stage' = [stage EXCEPT ![r] = "spawned"] /\ UNCHANGED <<kind, waits, queue, gen, active, inflight>>
  BY <1>1 DEF SpawnTask, Reaches
<1>3. \A x \in Slots : x # r => stage'[x] = stage[x]
  BY <1>2 DEF LoopInv, LoopTypeOK
<1>4. /\ LinesOK' /\ HandlersOK'
      /\ batch' \in Seq(Slots) /\ Len(batch') <= BatchSize
      /\ loop' \in {"select", "drained", "batch", "beat"} /\ using' \in 0 .. MaxGen
      /\ asked' \in [Slots -> 0 .. MaxGen]
      /\ r \in Slots /\ stage[r] = "batch"
  BY <1>1, <1>2, <1>3, BatchStep DEF SpawnTask
<1>5. \A x \in Slots : stage'[x] = IF x = r THEN "spawned" ELSE stage[x]
  BY <1>2, <1>4 DEF LoopInv, LoopTypeOK
<1>6. /\ {FgPermits, BgPermits, fg, bg, active, inflight} \subseteq Nat
      /\ kind[r] = "background" => bg < BgPermits /\ bg' = bg + 1 /\ fg' = fg
      /\ kind[r] # "background" => fg < FgPermits /\ fg' = fg + 1 /\ bg' = bg
  BY <1>1, LoopAssumption DEF SpawnTask, Permitted, LoopInv, LoopTypeOK
<1>7. LoopTypeOK'
  <2>1. stage' \in [Slots -> Stages]
    BY <1>2 DEF LoopInv, LoopTypeOK, Stages
  <2>2. {fg', bg', active', inflight'} \subseteq Nat
    BY <1>2, <1>6
  <2>3. QED
    BY <1>2, <1>4, <2>1, <2>2 DEF LoopInv, LoopTypeOK
<1>8. /\ HoldActive' = HoldActive /\ HoldQuery' = HoldQuery /\ Served' = Served
      /\ r \notin HoldFg /\ r \notin HoldBg
  BY <1>2, <1>4, <1>5 DEF HoldFg, HoldBg, HoldActive, HoldQuery, Served, InTask, At, Foreground
<1>9. fg' = Cardinality(HoldFg') /\ fg' <= FgPermits /\ bg' = Cardinality(HoldBg') /\ bg' <= BgPermits
  <2>1. /\ fg = Cardinality(HoldFg) /\ bg = Cardinality(HoldBg) /\ fg <= FgPermits /\ bg <= BgPermits
    BY DEF LoopInv, CountersExact, HoldFg, HoldBg
  <2>2. CASE kind[r] = "background"
    <3>1. HoldFg' = HoldFg /\ HoldBg' = HoldBg \cup {r}
      BY <1>2, <1>4, <1>5, <2>2 DEF HoldFg, HoldBg, InTask, At, Foreground
    <3>2. QED
      BY <1>4, <1>6, <1>8, <2>1, <2>2, <3>1, OneMore, HoldersAreSlots
  <2>3. CASE kind[r] # "background"
    <3>1. HoldBg' = HoldBg /\ HoldFg' = HoldFg \cup {r}
      BY <1>2, <1>4, <1>5, <2>3 DEF HoldFg, HoldBg, InTask, At, Foreground
    <3>2. QED
      BY <1>4, <1>6, <1>8, <2>1, <2>3, <3>1, OneMore, HoldersAreSlots
  <2>4. QED
    BY <2>2, <2>3
<1>10. CountersExact'
  BY <1>2, <1>8, <1>9 DEF LoopInv, CountersExact, HoldFg, HoldBg, HoldActive, HoldQuery
<1>11. QueryLimitHeld'
  BY <1>8, ServedShrinks DEF LoopInv
<1>12. QED
  BY <1>4, <1>7, <1>10, <1>11 DEF LoopInv

\* A request without a permit is forgotten; it held nothing.
LEMMA DropRequestKeeps == ASSUME LoopInv, DropRequest PROVE LoopInv'
<1>1. PICK r : r = Head(batch)
  OBVIOUS
<1>2. /\ stage' = [stage EXCEPT ![r] = "free"] /\ kind' = [kind EXCEPT ![r] = "client"]
      /\ waits' = [waits EXCEPT ![r] = FALSE] /\ UNCHANGED <<queue, gen, counters>>
  BY <1>1 DEF DropRequest, Forget, Reaches, Answered
<1>3. \A x \in Slots : x # r => stage'[x] = stage[x] /\ kind'[x] = kind[x]
  BY <1>2 DEF LoopInv, LoopTypeOK
<1>4. /\ LinesOK' /\ HandlersOK'
      /\ batch' \in Seq(Slots) /\ Len(batch') <= BatchSize
      /\ loop' \in {"select", "drained", "batch", "beat"} /\ using' \in 0 .. MaxGen
      /\ asked' \in [Slots -> 0 .. MaxGen]
      /\ r \in Slots /\ stage[r] = "batch"
  BY <1>1, <1>2, <1>3, BatchStep DEF DropRequest
<1>5. stage'[r] = "free"
  BY <1>2, <1>4 DEF LoopInv, LoopTypeOK
<1>6. LoopTypeOK'
  <2>1. stage' \in [Slots -> Stages] /\ kind' \in [Slots -> Kinds]
    BY <1>2 DEF LoopInv, LoopTypeOK, Stages, Kinds
  <2>2. waits' \in [Slots -> BOOLEAN]
    BY <1>2 DEF LoopInv, LoopTypeOK
  <2>3. QED
    BY <1>2, <1>4, <2>1, <2>2 DEF LoopInv, LoopTypeOK, counters
<1>7. CountersExact' /\ QueryLimitHeld'
  BY <1>2, <1>3, <1>4, <1>5, CountersKept DEF LoopInv
<1>8. QED
  BY <1>4, <1>6, <1>7 DEF LoopInv

----------------------------------------------------------------------------
(* Steps that move no request.                                             *)

\* The caller gives up.
LEMMA HangupKeeps == ASSUME LoopInv, NEW r \in Slots, Hangup(r) PROVE LoopInv'
<1>1. waits' \in [Slots -> BOOLEAN]
  BY DEF LoopInv, LoopTypeOK, Hangup, Answered
<1>2. LoopTypeOK'
  BY <1>1 DEF LoopInv, LoopTypeOK, Hangup, counters
<1>3. LinesOK' /\ HandlersOK'
  BY LinesKept, HandlersKept DEF LoopInv, Hangup
<1>4. CountersExact' /\ QueryLimitHeld'
  BY CountersKept DEF LoopInv, Hangup
<1>5. QED
  BY <1>2, <1>3, <1>4 DEF LoopInv

\* The loop reads the handler: it is as new as any request of the batch.
LEMMA ReadHandlerKeeps == ASSUME LoopInv, ReadHandler PROVE LoopInv'
<1>1. LoopTypeOK'
  BY DEF LoopInv, LoopTypeOK, ReadHandler, HandlerNow, counters
<1>2. LinesOK'
  BY LinesKept DEF LoopInv, ReadHandler
<1>3. HandlersOK'
  <2>1. \A i \in 1 .. Len(batch) : batch[i] \in Slots
    BY DEF LoopInv, LoopTypeOK
  <2>2. QED
    BY <2>1 DEF LoopInv, HandlersOK, FreshHandler, ReadHandler, HandlerNow
<1>4. CountersExact' /\ QueryLimitHeld'
  BY CountersKept DEF LoopInv, ReadHandler
<1>5. QED
  BY <1>1, <1>2, <1>3, <1>4 DEF LoopInv

\* The heartbeat branch, outside any batch.
LEMMA HeartbeatKeeps == ASSUME LoopInv, HeartbeatStart \/ HeartbeatEnd PROVE LoopInv'
<1>1. LoopTypeOK'
  BY DEF LoopInv, LoopTypeOK, HeartbeatStart, HeartbeatEnd, counters
<1>2. LinesOK' /\ HandlersOK'
  BY LinesKept, HandlersKept DEF LoopInv, HeartbeatStart, HeartbeatEnd
<1>3. CountersExact' /\ QueryLimitHeld'
  BY CountersKept DEF LoopInv, HeartbeatStart, HeartbeatEnd
<1>4. QED
  BY <1>1, <1>2, <1>3 DEF LoopInv

\* A reload installs a handler; a batch that has read the old one keeps it.
LEMMA NewHandlerKeeps == ASSUME LoopInv, NewHandler PROVE LoopInv'
<1>1. LoopTypeOK'
  BY LoopAssumption DEF LoopInv, LoopTypeOK, NewHandler, counters
<1>2. LinesOK'
  BY LinesKept DEF LoopInv, NewHandler
<1>3. HandlersOK'
  <2>1. gen \in Nat /\ \A r \in Slots : asked[r] \in Nat
    BY DEF LoopInv, LoopTypeOK
  <2>2. QED
    BY <2>1 DEF LoopInv, HandlersOK, FreshHandler, NewHandler
<1>4. CountersExact' /\ QueryLimitHeld'
  BY CountersKept DEF LoopInv, NewHandler
<1>5. QED
  BY <1>1, <1>2, <1>3, <1>4 DEF LoopInv

----------------------------------------------------------------------------
(* The task of a request.                                                  *)

\* A task changes its own stage, its caller's state and counters only.
LEMMA TaskLines ==
  ASSUME LoopInv, NEW r \in Slots, NEW s \in Stages, stage' = [stage EXCEPT ![r] = s],
         stage[r] \in {"spawned", "running", "retract", "leaving"},
         UNCHANGED <<asked, queue, batch, loop, gen, using>>
  PROVE  /\ LinesOK' /\ HandlersOK' /\ stage' \in [Slots -> Stages]
         /\ \A x \in Slots : stage'[x] = IF x = r THEN s ELSE stage[x]
<1>1. stage' \in [Slots -> Stages] /\ \A x \in Slots : stage'[x] = IF x = r THEN s ELSE stage[x]
  BY DEF LoopInv, LoopTypeOK
<1>2. LinesOK'
  BY <1>1, LinesKept DEF LoopInv
<1>3. HandlersOK'
  BY HandlersKept DEF LoopInv
<1>4. QED
  BY <1>1, <1>2, <1>3

\* What is no query is counted as active and never as in flight.
LEMMA DropNoiseKeeps == ASSUME LoopInv, NEW r \in Slots, DropNoise(r) PROVE LoopInv'
<1>1. /\ stage[r] = "spawned" /\ active' = active + 1
      /\ UNCHANGED <<kind, asked, queue, batch, loop, gen, using, fg, bg, inflight>>
  BY DEF DropNoise
<1>2. /\ LinesOK' /\ HandlersOK' /\ stage' \in [Slots -> Stages]
      /\ \A x \in Slots : stage'[x] = IF x = r THEN "leaving" ELSE stage[x]
  BY <1>1, TaskLines DEF DropNoise, Reaches, Stages
<1>3. LoopTypeOK'
  <2>1. waits' \in [Slots -> BOOLEAN]
    BY DEF LoopInv, LoopTypeOK, DropNoise, Answered
  <2>2. {fg', bg', active', inflight'} \subseteq Nat
    BY <1>1 DEF LoopInv, LoopTypeOK
  <2>3. QED
    BY <1>1, <1>2, <2>1, <2>2 DEF LoopInv, LoopTypeOK
<1>4. /\ HoldFg' = HoldFg /\ HoldBg' = HoldBg /\ HoldQuery' = HoldQuery /\ Served' = Served
      /\ HoldActive' = HoldActive \cup {r} /\ r \notin HoldActive
  BY <1>1, <1>2 DEF HoldFg, HoldBg, HoldActive, HoldQuery, Served, InTask, At, Foreground
<1>5. Cardinality(HoldActive') = Cardinality(HoldActive) + 1
  BY <1>4, OneMore, HoldersAreSlots
<1>6. CountersExact'
  BY <1>1, <1>4, <1>5 DEF LoopInv, CountersExact, HoldFg, HoldBg, HoldActive, HoldQuery
<1>7. QueryLimitHeld'
  BY <1>4, ServedShrinks DEF LoopInv
<1>8. QED
  BY <1>2, <1>3, <1>6, <1>7 DEF LoopInv

\* A query is counted first and compared with the limit then.
LEMMA EnterQueryKeeps == ASSUME LoopInv, NEW r \in Slots, EnterQuery(r) PROVE LoopInv'
<1>1. PICK s \in {"running", "retract"} : s = IF OverLimit(r) THEN "retract" ELSE "running"
  OBVIOUS
<1>2. /\ stage[r] = "spawned" /\ active' = active + 1 /\ inflight' = inflight + 1
      /\ stage' = [stage EXCEPT ![r] = s]
      /\ UNCHANGED <<kind, asked, waits, queue, batch, loop, gen, using, fg, bg>>
  BY <1>1 DEF EnterQuery, Counted, Reaches
<1>3. /\ LinesOK' /\ HandlersOK' /\ stage' \in [Slots -> Stages]
      /\ \A x \in Slots : stage'[x] = IF x = r THEN s ELSE stage[x]
  BY <1>1, <1>2, TaskLines DEF Stages
<1>4. LoopTypeOK'
  <2>1. {fg', bg', active', inflight'} \subseteq Nat
    BY <1>2 DEF LoopInv, LoopTypeOK
  <2>2. QED
    BY <1>2, <1>3, <2>1 DEF LoopInv, LoopTypeOK
<1>5. /\ HoldFg' = HoldFg /\ HoldBg' = HoldBg
      /\ HoldActive' = HoldActive \cup {r} /\ r \notin HoldActive
      /\ HoldQuery' = HoldQuery \cup {r} /\ r \notin HoldQuery
  BY <1>1, <1>2, <1>3 DEF HoldFg, HoldBg, HoldActive, HoldQuery, InTask, At, Foreground
<1>6. /\ Cardinality(HoldActive') = Cardinality(HoldActive) + 1
      /\ Cardinality(HoldQuery') = Cardinality(HoldQuery) + 1
  BY <1>5, OneMore, HoldersAreSlots
<1>7. CountersExact'
  BY <1>2, <1>5, <1>6 DEF LoopInv, CountersExact, HoldFg, HoldBg, HoldActive, HoldQuery
<1>8. QueryLimitHeld'
  <2>1. CASE s = "retract" \/ kind[r] = "background"
    <3>1. Served' \subseteq Served
      BY <1>2, <1>3, <2>1 DEF Served, At, Foreground
    <3>2. QED
      BY <3>1, ServedShrinks DEF LoopInv
  <2>2. CASE s = "running" /\ kind[r] # "background"
    <3>1. QueryLimit \in Nat /\ inflight \in Nat
      BY LoopAssumption DEF LoopInv, LoopTypeOK
    <3>2. QueryLimit > 0 => inflight + 1 <= QueryLimit
      BY <1>1, <2>2, <3>1 DEF OverLimit
    <3>3. inflight = Cardinality(HoldQuery)
      BY DEF LoopInv, CountersExact, HoldQuery
    <3>4. HoldQuery' \subseteq Slots /\ Served' \subseteq HoldQuery'
      BY DEF HoldQuery, Served, At
    <3>5. Cardinality(Served') \in Nat /\ Cardinality(Served') <= Cardinality(HoldQuery')
      BY <3>4, NotLarger
    <3>6. QED
      BY <1>6, <3>1, <3>2, <3>3, <3>5 DEF QueryLimitHeld, Served
  <2>3. QED
    BY <1>1, <2>1, <2>2
<1>9. QED
  BY <1>3, <1>4, <1>7, <1>8 DEF LoopInv

\* The QueryGuard of a refused or served query is dropped.
LEMMA LeaveKeeps ==
  ASSUME LoopInv, NEW r \in Slots, RetractQuery(r) \/ FinishQuery(r)
  PROVE  LoopInv'
<1>1. /\ stage[r] \in {"running", "retract"} /\ inflight' = inflight - 1
      /\ stage' = [stage EXCEPT ![r] = "leaving"] /\ waits' = [waits EXCEPT ![r] = FALSE]
      /\ UNCHANGED <<kind, asked, queue, batch, loop, gen, using, fg, bg, active>>
  BY DEF RetractQuery, FinishQuery, Reaches, Answered
<1>2. /\ LinesOK' /\ HandlersOK' /\ stage' \in [Slots -> Stages]
      /\ \A x \in Slots : stage'[x] = IF x = r THEN "leaving" ELSE stage[x]
  BY <1>1, TaskLines DEF Stages
<1>3. /\ HoldFg' = HoldFg /\ HoldBg' = HoldBg /\ HoldActive' = HoldActive
      /\ HoldQuery' = HoldQuery \ {r} /\ r \in HoldQuery /\ Served' \subseteq Served
  BY <1>1, <1>2 DEF HoldFg, HoldBg, HoldActive, HoldQuery, Served, InTask, At, Foreground
<1>4. /\ Cardinality(HoldQuery') = Cardinality(HoldQuery) - 1
      /\ Cardinality(HoldQuery) \in Nat /\ Cardinality(HoldQuery) >= 1
  BY <1>3, OneLess, HoldersAreSlots
<1>5. inflight = Cardinality(HoldQuery)
  BY DEF LoopInv, CountersExact, HoldQuery
<1>6. LoopTypeOK'
  <2>1. waits' \in [Slots -> BOOLEAN]
    BY <1>1 DEF LoopInv, LoopTypeOK
  <2>2. {fg', bg', active', inflight'} \subseteq Nat
    BY <1>1, <1>4, <1>5 DEF LoopInv, LoopTypeOK
  <2>3. QED
    BY <1>1, <1>2, <2>1, <2>2 DEF LoopInv, LoopTypeOK
<1>7. CountersExact'
  BY <1>1, <1>3, <1>4 DEF LoopInv, CountersExact, HoldFg, HoldBg, HoldActive, HoldQuery
<1>8. QueryLimitHeld'
  BY <1>3, ServedShrinks DEF LoopInv
<1>9. QED
  BY <1>2, <1>6, <1>7, <1>8 DEF LoopInv

\* The task ends and gives back its permit, to the semaphore it came from.
LEMMA EndTaskKeeps == ASSUME LoopInv, NEW r \in Slots, EndTask(r) PROVE LoopInv'
<1>1. /\ stage[r] = "leaving" /\ active' = active - 1
      /\ stage' = [stage EXCEPT ![r] = "free"] /\ kind' = [kind EXCEPT ![r] = "client"]
      /\ kind[r] = "background" => bg' = bg - 1 /\ fg' = fg
      /\ kind[r] # "background" => fg' = fg - 1 /\ bg' = bg
      /\ UNCHANGED <<asked, waits, queue, batch, loop, gen, using, inflight>>
  BY DEF EndTask, Forget, Reaches
<1>2. /\ LinesOK' /\ HandlersOK' /\ stage' \in [Slots -> Stages]
      /\ \A x \in Slots : stage'[x] = IF x = r THEN "free" ELSE stage[x]
  BY <1>1, TaskLines DEF Stages
<1>3. /\ kind' \in [Slots -> Kinds]
      /\ \A x \in Slots : kind'[x] = IF x = r THEN "client" ELSE kind[x]
  BY <1>1 DEF LoopInv, LoopTypeOK, Kinds
<1>4. /\ HoldQuery' = HoldQuery /\ Served' \subseteq Served
      /\ HoldActive' = HoldActive \ {r} /\ r \in HoldActive
  BY <1>1, <1>2, <1>3 DEF HoldActive, HoldQuery, Served, InTask, At, Foreground
<1>5. /\ Cardinality(HoldActive') = Cardinality(HoldActive) - 1
      /\ Cardinality(HoldActive) \in Nat /\ Cardinality(HoldActive) >= 1
  BY <1>4, OneLess, HoldersAreSlots
<1>6. /\ fg = Cardinality(HoldFg) /\ fg <= FgPermits /\ bg = Cardinality(HoldBg) /\ bg <= BgPermits
      /\ active = Cardinality(HoldActive) /\ inflight = Cardinality(HoldQuery)
      /\ {fg, bg, active, inflight, FgPermits, BgPermits} \subseteq Nat
  BY LoopAssumption DEF LoopInv, LoopTypeOK, CountersExact, HoldFg, HoldBg, HoldActive, HoldQuery
<1>7. /\ fg' \in Nat /\ fg' = Cardinality(HoldFg') /\ fg' <= FgPermits
      /\ bg' \in Nat /\ bg' = Cardinality(HoldBg') /\ bg' <= BgPermits
  <2>1. CASE kind[r] = "background"
    <3>1. HoldFg' = HoldFg /\ HoldBg' = HoldBg \ {r} /\ r \in HoldBg
      BY <1>1, <1>2, <1>3, <2>1 DEF HoldFg, HoldBg, InTask, At, Foreground
    <3>2. /\ Cardinality(HoldBg') = Cardinality(HoldBg) - 1 /\ Cardinality(HoldBg) >= 1
      BY <3>1, OneLess, HoldersAreSlots
    <3>3. QED
      BY <1>1, <1>6, <2>1, <3>1, <3>2
  <2>2. CASE kind[r] # "background"
    <3>1. HoldBg' = HoldBg /\ HoldFg' = HoldFg \ {r} /\ r \in HoldFg
      BY <1>1, <1>2, <1>3, <2>2 DEF HoldFg, HoldBg, InTask, At, Foreground
    <3>2. /\ Cardinality(HoldFg') = Cardinality(HoldFg) - 1 /\ Cardinality(HoldFg) >= 1
      BY <3>1, OneLess, HoldersAreSlots
    <3>3. QED
      BY <1>1, <1>6, <2>2, <3>1, <3>2
  <2>3. QED
    BY <2>1, <2>2
<1>8. LoopTypeOK'
  <2>1. {fg', bg', active', inflight'} \subseteq Nat
    BY <1>1, <1>5, <1>6, <1>7
  <2>2. QED
    BY <1>1, <1>2, <1>3, <2>1 DEF LoopInv, LoopTypeOK
<1>9. CountersExact'
  BY <1>1, <1>4, <1>5, <1>6, <1>7 DEF CountersExact, HoldFg, HoldBg, HoldActive, HoldQuery
<1>10. QueryLimitHeld'
  BY <1>4, ServedShrinks DEF LoopInv
<1>11. QED
  BY <1>2, <1>8, <1>9, <1>10 DEF LoopInv

----------------------------------------------------------------------------

\* Every step keeps the invariant.
LEMMA LoopInductive == LoopInv /\ [LoopNext]_loopVars => LoopInv'
<1> SUFFICES ASSUME LoopInv, [LoopNext]_loopVars PROVE LoopInv'
  OBVIOUS
<1>1. CASE UNCHANGED loopVars
  <2>1. LoopTypeOK'
    BY <1>1 DEF loopVars, LoopInv, LoopTypeOK
  <2>2. LinesOK' /\ HandlersOK'
    BY <1>1, LinesKept, HandlersKept DEF loopVars, LoopInv
  <2>3. CountersExact' /\ QueryLimitHeld'
    BY <1>1, CountersKept DEF loopVars, counters, LoopInv
  <2>4. QED
    BY <2>1, <2>2, <2>3 DEF LoopInv
<1>2. CASE \E r \in Slots : Hangup(r) \/ Task(r) \/ \E k \in Kinds : Send(r, k)
  BY <1>2, HangupKeeps, SendKeeps, DropNoiseKeeps, EnterQueryKeeps, LeaveKeeps, EndTaskKeeps DEF Task
<1>3. CASE Drain \/ LoopStep \/ HeartbeatStart \/ NewHandler
  BY <1>3, DrainKeeps, ReadHandlerKeeps, SpawnTaskKeeps, DropRequestKeeps, HeartbeatKeeps,
     NewHandlerKeeps DEF LoopStep
<1>4. QED
  BY <1>1, <1>2, <1>3 DEF LoopNext

\* The invariant holds in every behaviour.
LEMMA LoopAlways == LoopSpec => []LoopInv
BY LoopInitial, LoopInductive, PTL DEF LoopSpec

\* No counter is decremented below zero and no line outgrows its bound, for any
\* capacities (DnsHandle::send, the guards' drops).
THEOREM LoopTypeCorrect == LoopSpec => []LoopTypeOK
<1>1. LoopInv => LoopTypeOK
  BY DEF LoopInv
<1>2. QED
  BY <1>1, LoopAlways, PTL

\* Every permit, active query and query in flight belongs to a request that
\* is there, on all ways out of the pipeline (app.rs, server/limit.rs).
THEOREM CountersExactHolds == LoopSpec => []CountersExact
<1>1. LoopInv => CountersExact
  BY DEF LoopInv
<1>2. QED
  BY <1>1, LoopAlways, PTL

\* No more client queries are served at a time than max-query-limit, although
\* the count is an atomic without a lock (enter_query).
THEOREM QueryLimitHolds == LoopSpec => []QueryLimitHeld
<1>1. LoopInv => QueryLimitHeld
  BY DEF LoopInv
<1>2. QED
  BY <1>1, LoopAlways, PTL

\* No batch is dispatched with a handler older than the one in place when its
\* requests were sent (the main loop of app.rs).
THEOREM FreshHandlerHolds == LoopSpec => []FreshHandler
<1>1. LoopInv => FreshHandler
  BY DEF LoopInv, HandlersOK
<1>2. QED
  BY <1>1, LoopAlways, PTL
=============================================================================
