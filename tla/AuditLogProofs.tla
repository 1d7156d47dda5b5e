--------------------------- MODULE AuditLogProofs ---------------------------
(***************************************************************************)
(* What the audit task can lose.  That it loses records when it ends is    *)
(* the violation of TailWritten; here it is bounded, for every set of      *)
(* records, capacity of the channel and size of the buffer.                *)
(***************************************************************************)
EXTENDS AuditLog, FiniteSetTheorems, TLAPS

Accepted == {r \in Records : fate[r] = "accepted"}

\* Where a record the channel has taken may be.
Underway == {auditChan[i] : i \in DOMAIN auditChan} \cup auditBuf \cup batch

\* No accepted record is ever out of sight, the channel keeps its bound, the
\* buffer is handed over before it is full, and the task ends with nothing but
\* its buffer.
AuditInv ==
  /\ auditChan \in Seq(Records) /\ Len(auditChan) <= ChanCap
  /\ senders \in BOOLEAN
  /\ auditBuf \subseteq Records /\ IsFiniteSet(auditBuf) /\ Cardinality(auditBuf) < BufSize
  /\ batch \subseteq Records
  /\ auditTask \in {"select", "io", "ended"}
  /\ fate \in [Records -> {"none", "accepted", "refused", "written", "failed"}]
  /\ Accepted \subseteq Underway
  /\ auditTask # "io" => batch = {}
  /\ auditTask = "ended" => auditChan = <<>> /\ ~senders

\* When the task is gone, fewer records than the buffer holds were taken and
\* never written, all of them in that buffer: whatever the channel held has
\* been collected, and every batch handed to the blocking pool has ended.
TailBounded ==
  auditTask = "ended" =>
    Accepted \subseteq auditBuf /\ Cardinality(Accepted) < BufSize

\* Sizes: the code's are 1024 and 10.
Sizes == ChanCap \in Nat /\ BufSize \in Nat \ {0}

\* The buffer after a hand-over.
LEMMA EmptyBuffer ==
  ASSUME Sizes
  PROVE  IsFiniteSet({}) /\ Cardinality({}) < BufSize
BY FS_EmptySet DEF Sizes

\* A request that is done offers its record (DnsAuditMiddleware::handle).
LEMMA AuditInvKept ==
  ASSUME Sizes, AuditInv, NEW r \in Records, Audit(r)
  PROVE  AuditInv'
<1>1. UNCHANGED <<senders, auditBuf, batch, auditTask>> /\ senders
  BY DEF Audit
<1>2. CASE Len(auditChan) < ChanCap
  <2>1. auditChan' = Append(auditChan, r) /\ Fates({r}, "accepted")
    BY <1>2 DEF Audit
  <2>2. /\ auditChan' \in Seq(Records) /\ Len(auditChan') = Len(auditChan) + 1
        /\ DOMAIN auditChan' = DOMAIN auditChan \cup {Len(auditChan) + 1}
        /\ auditChan'[Len(auditChan) + 1] = r
        /\ \A i \in DOMAIN auditChan : auditChan'[i] = auditChan[i]
    BY <2>1 DEF AuditInv
  <2>3. /\ fate' \in [Records -> {"none", "accepted", "refused", "written", "failed"}]
        /\ \A s \in Records : s # r => fate'[s] = fate[s]
    BY <2>1 DEF Fates, AuditInv
  <2>4. Len(auditChan') <= ChanCap
    BY <1>2, <2>2 DEF AuditInv, Sizes
  <2>5. Accepted' \subseteq Underway'
    BY <1>1, <2>2, <2>3 DEF AuditInv, Accepted, Underway
  <2>6. QED
    BY <1>1, <2>2, <2>3, <2>4, <2>5 DEF AuditInv
<1>3. CASE ~(Len(auditChan) < ChanCap)
  <2>1. auditChan' = auditChan /\ Fates({r}, "refused")
    BY <1>3 DEF Audit
  <2>2. /\ fate' \in [Records -> {"none", "accepted", "refused", "written", "failed"}]
        /\ \A s \in Records : fate'[s] = "accepted" => fate[s] = "accepted"
    BY <2>1 DEF Fates, AuditInv
  <2>3. Accepted' \subseteq Underway'
    BY <1>1, <2>1, <2>2 DEF AuditInv, Accepted, Underway
  <2>4. QED
    BY <1>1, <2>1, <2>2, <2>3 DEF AuditInv
<1>4. QED
  BY <1>2, <1>3

\* The task takes a record from the channel.
LEMMA CollectKept ==
  ASSUME Sizes, AuditInv, Collect
  PROVE  AuditInv'
<1>1. PICK r : r = Head(auditChan)
  OBVIOUS
<1>2. /\ auditTask = "select" /\ auditChan # <<>> /\ auditChan' = Tail(auditChan)
      /\ UNCHANGED <<senders, fate>>
  BY DEF Collect
<1>3. /\ auditChan' \in Seq(Records) /\ Len(auditChan') <= ChanCap /\ r \in Records
      /\ \A i \in DOMAIN auditChan : auditChan[i] = r \/ \E j \in DOMAIN auditChan' : auditChan[i] = auditChan'[j]
  <2>1. /\ auditChan \in Seq(Records) /\ Len(auditChan) \in Nat /\ Len(auditChan) # 0
        /\ Len(auditChan) <= ChanCap /\ ChanCap \in Nat
    BY <1>2 DEF AuditInv, Sizes
  <2>2. auditChan' \in Seq(Records) /\ Len(auditChan') = Len(auditChan) - 1 /\ r = auditChan[1] /\ r \in Records
    BY <1>1, <1>2, <2>1
  <2>3. \A j \in 1 .. Len(auditChan') : auditChan'[j] = auditChan[j + 1]
    BY <1>2, <2>1
  <2>4. ASSUME NEW i \in DOMAIN auditChan, i # 1
        PROVE  \E j \in DOMAIN auditChan' : auditChan[i] = auditChan'[j]
    <3>1. i - 1 \in 1 .. Len(auditChan') /\ (i - 1) + 1 = i
      BY <2>1, <2>2, <2>4
    <3>2. QED
      BY <2>2, <2>3, <3>1
  <2>5. QED
    BY <2>1, <2>2, <2>4
<1> DEFINE rs == auditBuf \cup {r}
<1>4. rs \subseteq Records /\ IsFiniteSet(rs) /\ Cardinality(rs) \in Nat
  BY <1>3, FS_AddElement, FS_CardinalityType DEF AuditInv
<1>5. \/ Cardinality(rs) < BufSize /\ auditBuf' = rs /\ batch' = batch /\ auditTask' = "select"
      \/ auditBuf' = {} /\ batch' = rs /\ auditTask' = "io"
  BY <1>1, <1>2, <1>4 DEF Collect, HandOver, Sizes
<1>6. Accepted' \subseteq Underway'
  <2>1. Accepted' = Accepted
    BY <1>2 DEF Accepted
  <2>2. Underway \subseteq Underway'
    BY <1>2, <1>3, <1>5 DEF AuditInv, Underway
  <2>3. QED
    BY <2>1, <2>2 DEF AuditInv
<1>7. IsFiniteSet(auditBuf') /\ Cardinality(auditBuf') < BufSize
  BY <1>4, <1>5, EmptyBuffer
<1>8. QED
  BY <1>2, <1>3, <1>4, <1>5, <1>6, <1>7 DEF AuditInv

\* The timer hands the buffer over.
LEMMA FlushKept ==
  ASSUME Sizes, AuditInv, FlushTick
  PROVE  AuditInv'
<1>1. /\ auditTask = "select" /\ batch' = auditBuf /\ auditBuf' = {} /\ auditTask' = "io"
      /\ UNCHANGED <<auditChan, senders, fate>>
  BY DEF FlushTick, HandOver
<1>2. Accepted' \subseteq Underway'
  BY <1>1 DEF AuditInv, Accepted, Underway
<1>3. QED
  BY <1>1, <1>2, EmptyBuffer DEF AuditInv

\* A batch ends, written or not.
LEMMA BatchKept ==
  ASSUME AuditInv, NEW o \in {"written", "failed"}, BatchDone(o)
  PROVE  AuditInv'
<1>1. /\ batch' = {} /\ auditTask' = "select" /\ UNCHANGED <<auditChan, senders, auditBuf>>
      /\ fate' = [r \in Records |-> IF r \in batch THEN o ELSE fate[r]]
  BY DEF BatchDone, Fates
<1>2. fate' \in [Records -> {"none", "accepted", "refused", "written", "failed"}]
  BY <1>1 DEF AuditInv
<1>3. Accepted' \subseteq Underway'
  BY <1>1 DEF AuditInv, Accepted, Underway
<1>4. QED
  BY <1>1, <1>2, <1>3 DEF AuditInv

\* The middleware goes, and with its channel empty the task ends.
LEMMA EndKept ==
  ASSUME AuditInv, Retire \/ Closed \/ UNCHANGED auditVars
  PROVE  AuditInv'
<1>1. CASE Retire
  BY <1>1 DEF Retire, AuditInv, Accepted, Underway
<1>2. CASE Closed
  BY <1>2 DEF Closed, AuditInv, Accepted, Underway
<1>3. CASE UNCHANGED auditVars
  BY <1>3 DEF auditVars, AuditInv, Accepted, Underway
<1>4. QED
  BY <1>1, <1>2, <1>3

\* The invariant holds initially.
LEMMA AuditInitial ==
  ASSUME Sizes
  PROVE  AuditInit => AuditInv
<1> SUFFICES ASSUME AuditInit PROVE AuditInv
  OBVIOUS
<1>1. auditChan \in Seq(Records) /\ Len(auditChan) <= ChanCap
  BY DEF AuditInit, Sizes
<1>2. QED
  BY <1>1, EmptyBuffer DEF AuditInit, AuditInv, Accepted, Underway

\* What the end of an audit task can lose is bounded: fewer than BUF_SIZE
\* records, those of its last, unwritten buffer.  Nothing is lost on the way, in
\* the channel or in the blocking pool, by a reload or by a failed batch.
THEOREM TailBoundedHolds ==
  ASSUME Sizes
  PROVE  AuditSpec => []TailBounded
<1>1. AuditInv /\ [AuditNext]_auditVars => AuditInv'
  BY AuditInvKept, CollectKept, FlushKept, BatchKept, EndKept DEF AuditNext
<1>2. AuditInv => TailBounded
  <2>1. SUFFICES ASSUME AuditInv, auditTask = "ended"
                 PROVE  Accepted \subseteq auditBuf /\ Cardinality(Accepted) < BufSize
    BY DEF TailBounded
  <2>2. Accepted \subseteq auditBuf
    BY <2>1 DEF AuditInv, Underway
  <2>3. IsFiniteSet(auditBuf) /\ Cardinality(auditBuf) < BufSize
    BY <2>1 DEF AuditInv
  <2>4. Cardinality(Accepted) <= Cardinality(auditBuf) /\ Cardinality(Accepted) \in Nat
        /\ Cardinality(auditBuf) \in Nat
    BY <2>2, <2>3, FS_Subset, FS_CardinalityType
  <2>5. QED
    BY <2>2, <2>3, <2>4 DEF Sizes
<1>3. QED
  BY <1>1, <1>2, AuditInitial, PTL DEF AuditSpec
=============================================================================
