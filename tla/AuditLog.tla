------------------------------ MODULE AuditLog ------------------------------
(***************************************************************************)
(* The audit task (dns_mw_audit.rs): records come in through a bounded     *)
(* channel, are collected and written in batches on the blocking pool.     *)
(* Every reload builds a middleware with a task of its own; the old task   *)
(* ends once the last request of the old middleware is done.               *)
(***************************************************************************)
EXTENDS Integers, Sequences, FiniteSets

CONSTANTS
  Records,   \* audit records
  ChanCap,   \* capacity of the channel (1024)
  BufSize    \* BUF_SIZE (10)

VARIABLES
  auditChan,   \* mpsc channel
  senders,     \* the middleware, hence the sending side, is alive
  auditBuf,    \* buf
  batch,       \* records_to_write of the blocking task under way
  auditTask,   \* "select", "io" or "ended"
  fate         \* what became of each record

auditVars == <<auditChan, senders, auditBuf, batch, auditTask, fate>>

AuditInit ==
  /\ auditChan = <<>> /\ senders = TRUE
  /\ auditBuf = {} /\ batch = {} /\ auditTask = "select"
  /\ fate = [r \in Records |-> "none"]

Fates(rs, f) == fate' = [r \in Records |-> IF r \in rs THEN f ELSE fate[r]]

\* DnsAuditMiddleware::handle, after the rest of the chain: try_send.
Audit(r) ==
  /\ senders /\ fate[r] = "none"
  /\ IF Len(auditChan) < ChanCap
     THEN auditChan' = Append(auditChan, r) /\ Fates({r}, "accepted")
     ELSE Fates({r}, "refused") /\ UNCHANGED auditChan
  /\ UNCHANGED <<senders, auditBuf, batch, auditTask>>

\* A reload has replaced the middleware and its last request is done.
Retire ==
  /\ senders /\ senders' = FALSE
  /\ UNCHANGED <<auditChan, auditBuf, batch, auditTask, fate>>

\* The buffer is handed to spawn_blocking.
HandOver(rs) == batch' = rs /\ auditBuf' = {} /\ auditTask' = "io"

\* recv: a record; the tenth starts a write.
Collect ==
  /\ auditTask = "select" /\ auditChan # <<>>
  /\ auditChan' = Tail(auditChan)
  /\ LET rs == auditBuf \cup {Head(auditChan)}
     IN  IF Cardinality(rs) >= BufSize THEN HandOver(rs)
         ELSE auditBuf' = rs /\ UNCHANGED <<batch, auditTask>>
  /\ UNCHANGED <<senders, fate>>

\* flush_interval, every three seconds.
FlushTick ==
  /\ auditTask = "select" /\ auditBuf # {}
  /\ HandOver(auditBuf)
  /\ UNCHANGED <<auditChan, senders, fate>>

\* The blocking task returns the file, with an error reported, or has panicked
\* and the file is opened again.
BatchDone(outcome) ==
  /\ auditTask = "io"
  /\ Fates(batch, outcome)
  /\ batch' = {} /\ auditTask' = "select"
  /\ UNCHANGED <<auditChan, senders, auditBuf>>

\* recv: the channel is closed and empty.
Closed ==
  /\ auditTask = "select" /\ auditChan = <<>> /\ ~senders
  /\ auditTask' = "ended"
  /\ UNCHANGED <<auditChan, senders, auditBuf, batch, fate>>

AuditNext ==
  \/ \E r \in Records : Audit(r)
  \/ Retire \/ Collect \/ FlushTick \/ Closed
  \/ \E o \in {"written", "failed"} : BatchDone(o)

AuditSpec == AuditInit /\ [][AuditNext]_auditVars

\* Every record the channel has taken is written, or its write has failed,
\* by the time its task is gone: the task writes every three seconds and a
\* closed channel is a safe end.  It does not hold: the task leaves the loop
\* with up to nine records in its buffer.
TailWritten ==
  auditTask = "ended" => \A r \in Records : fate[r] # "accepted"
=============================================================================
