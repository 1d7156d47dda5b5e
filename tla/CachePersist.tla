---------------------------- MODULE CachePersist ----------------------------
(***************************************************************************)
(* The cache file (dns_mw_cache.rs: persist_cache, load_cache_impl and the *)
(* persist task) and the single-instance guard (infra/process_guard.rs)    *)
(* that decides which process owns it.  A process may crash between any    *)
(* two steps and the machine may lose power; what was written but not      *)
(* synced is then incomplete.                                              *)
(*                                                                         *)
(* Names are some of the keys of the cache, each in a shard of its own: the *)
(* shards are written one after the other, each under its own lock, while  *)
(* lookups and time go on.  A load reads and decodes the file, archives it *)
(* by its path if it was no good, and puts the records one by one; none of *)
(* this is under PERSIST_LOCK.  Time counts in whole units of TTL.         *)
(***************************************************************************)
EXTENDS Integers

CONSTANTS
  Procs, NoProc,   \* processes, named by their PID; "no PID"
  PidPath,         \* the -p argument of each process
  Names, NoRecord, \* cache keys; "not in the cache"
  Lifetimes,       \* TTLs of answers
  FileLimit,       \* MAX_TTL, the bound clamp_file_duration applies
  Keep,            \* serve-expired-ttl
  ReplyTtl,        \* serve-expired-reply-ttl
  Retries,         \* PERSIST_RENAME_RETRIES
  Blank,           \* "no such file"
  MaxClock         \* bound on elapsed time

LockPid == "lock.pid"   \* lock_owner_pid_path, the same for every process
Paths == {PidPath[p] : p \in Procs} \cup {LockPid}

ASSUME PersistAssumption ==
  /\ NoProc \notin Procs
  /\ LockPid \notin {PidPath[p] : p \in Procs}
  /\ FileLimit \in Nat \ {0} /\ Lifetimes \subseteq 0 .. FileLimit
  /\ Keep \in Nat /\ ReplyTtl \in Nat /\ Retries \in Nat /\ MaxClock \in Nat

\* A record in memory, a row of a file, a file.  History: when the answer was
\* learnt (born), until when the upstream or a stale hit allowed it, later by
\* what each flush it went through took from its row to the last write (due),
\* and when the row was written (at).
CacheRecords == [until : Int, born : Nat, due : Nat]
FileRows == [left : Int, born : Nat, due : Nat, at : Nat]
CacheFiles == [rows : [Names -> FileRows \cup {NoRecord}],
               state : {"part", "whole", "damaged", "foreign"},
               synced : BOOLEAN, mtime : Nat]

ASSUME RecordAssumption ==
  /\ NoRecord \notin CacheRecords /\ NoRecord \notin FileRows
  /\ Blank \notin CacheFiles

VARIABLES
  clock,
  holder,    \* who holds the exclusive lock on the lock file
  pidfile,   \* the content of the PID files
  wrote,     \* the PID files each process has written (history)
  proc,      \* where each process is in its life
  mem,       \* DnsCache: records with valid_until
  saving,    \* persist_task: the periodic flush is on
  pending,   \* load_cache_only_missing has been handed to a blocking thread
  loading,   \* load_cache_impl under way: what it has decoded and not put yet
             \* (one at a time: bound)
  flush,     \* persist_cache under way, under PERSIST_LOCK
  scratch,   \* the temporary file of a flush; nobody reads what is left of one
  disk       \* the cache file

persistVars == <<clock, holder, pidfile, wrote, proc, mem, saving, pending, loading, flush, scratch, disk>>
guardVars == <<holder, pidfile, wrote>>
memVars == <<mem, saving, pending, loading>>
fileVars == <<flush, scratch, disk>>

Empty == [k \in Names |-> NoRecord]
NoFlush == [step |-> "idle", todo |-> {}, tries |-> 0, last |-> FALSE]
NoLoad == [step |-> "none", recs |-> Empty, only |-> FALSE, overtaken |-> FALSE]
Foreign == [rows |-> Empty, state |-> "foreign", synced |-> TRUE, mtime |-> 0]

\* The cache file is missing or was left by a version with another format.
PersistInit ==
  /\ clock = 0
  /\ holder = NoProc
  /\ pidfile = [f \in Paths |-> NoProc]
  /\ wrote = [p \in Procs |-> {}]
  /\ proc = [p \in Procs |-> "off"]
  /\ mem = [p \in Procs |-> Empty]
  /\ saving = [p \in Procs |-> FALSE]
  /\ pending = [p \in Procs |-> FALSE]
  /\ loading = [p \in Procs |-> NoLoad]
  /\ flush = [p \in Procs |-> NoFlush]
  /\ scratch = [p \in Procs |-> Blank]
  /\ disk \in {Blank, Foreign}

Life(p, s) == proc' = [proc EXCEPT ![p] = s]

----------------------------------------------------------------------------
(* The guard.                                                              *)

\* try_lock_exclusive; a process that does not get the lock exits.
Claim(p) ==
  /\ proc[p] = "off" /\ holder = NoProc
  /\ holder' = p
  /\ Life(p, "locked")
  /\ UNCHANGED <<clock, pidfile, wrote, memVars, fileVars>>

\* write_pid truncates and writes.  Either may fail; the process goes on.
PutPid(p, f) ==
  \/ /\ pidfile' = [pidfile EXCEPT ![f] = p]
     /\ wrote' = [wrote EXCEPT ![p] = @ \cup {f}]
  \/ /\ pidfile' = [pidfile EXCEPT ![f] = NoProc]
     /\ UNCHANGED wrote
  \/ UNCHANGED <<pidfile, wrote>>

\* First the file of -p, then the one next to the lock.
WritePid(p) ==
  /\ \/ proc[p] = "locked" /\ PutPid(p, PidPath[p]) /\ Life(p, "named")
     \/ proc[p] = "named" /\ PutPid(p, LockPid) /\ Life(p, "load")
  /\ UNCHANGED <<clock, holder, memVars, fileVars>>

\* Mutant: the lock is released before the PID files are cleared.
AfterUnlocking(s) ==
  CASE s = "unlock" -> "clearOwn" [] s = "clearOwn" -> "clearLock"
    [] s = "clearLock" -> "off" [] OTHER -> "unlock"

\* ProcessGuard::drop: the order of its steps.
After(s) ==
  CASE s = "clearOwn" -> "clearLock" [] s = "clearLock" -> "unlock"
    [] s = "unlock" -> "off" [] OTHER -> "clearOwn"

Leaving == {"clearOwn", "clearLock", "unlock"}

\* The PID file a process clears at this point of its way out, if it can.
Cleared(p) ==
  CASE proc[p] = "clearOwn" -> {PidPath[p]} [] proc[p] = "clearLock" -> {LockPid} [] OTHER -> {}

\* A flush or a load under way ends with the process.
Leave(p) ==
  /\ proc[p] \in Leaving
  /\ \E done \in SUBSET Cleared(p) :
       pidfile' = [f \in Paths |-> IF f \in done THEN NoProc ELSE pidfile[f]]
  /\ wrote' = [wrote EXCEPT ![p] = {}]
  /\ holder' = IF proc[p] = "unlock" THEN NoProc ELSE holder
  /\ Life(p, After(proc[p]))
  /\ IF After(proc[p]) = "off"
     THEN /\ flush' = [flush EXCEPT ![p] = NoFlush]
          /\ scratch' = [scratch EXCEPT ![p] = Blank]
          /\ loading' = [loading EXCEPT ![p] = NoLoad]
     ELSE UNCHANGED <<flush, scratch, loading>>
  /\ mem' = [mem EXCEPT ![p] = Empty]
  /\ saving' = [saving EXCEPT ![p] = FALSE]
  /\ pending' = [pending EXCEPT ![p] = FALSE]
  /\ UNCHANGED <<clock, disk>>

----------------------------------------------------------------------------
(* Reading the cache file.                                                 *)

\* clamp_file_duration, for what is left and for how long it has been dead.
Clamp(n) == IF n > FileLimit THEN FileLimit ELSE IF n < -FileLimit THEN -FileLimit ELSE n

\* Mutant: the time the file has lain there is not deducted.
RestoredFrozen(row, f) ==
  [until |-> clock + Clamp(row.left), born |-> row.born,
   due |-> row.due + (f.mtime - row.at)]

\* A row of a file, with the time since the file was written deducted.
Restored(row, f) ==
  [until |-> clock + Clamp(row.left) - (clock - f.mtime), born |-> row.born,
   due |-> row.due + (f.mtime - row.at)]

\* deserialize_best_effort: all rows, or those before the damage.
Readable(f, rows) ==
  /\ rows \subseteq {k \in Names : f.rows[k] # NoRecord}
  /\ f.state = "whole" => rows = {k \in Names : f.rows[k] # NoRecord}

\* Mutant: the file wins over what is in memory.
TakenAnyway(p, k, only) == TRUE

Taken(p, k, only) == only => mem[p][k] = NoRecord

\* Mutant: a file is archived once it has been read.
CondemnedAlways(f) == f # Blank

\* A file of another format, or one whose decoding has stopped, is archived.
Condemned(f) == f # Blank /\ f.state # "whole"

\* load_cache_impl reads the file and decodes it: nothing of a file of another
\* format, what is readable of any other.
LoadRead(p, only) ==
  \E rows \in SUBSET Names :
    /\ IF disk = Blank \/ disk.state = "foreign" THEN rows = {} ELSE Readable(disk, rows)
    /\ loading' = [loading EXCEPT ![p] =
         [step |-> IF Condemned(disk) THEN "archive" ELSE "put",
          recs |-> [k \in Names |-> IF k \in rows THEN Restored(disk.rows[k], disk) ELSE NoRecord],
          only |-> only, overtaken |-> FALSE]]

\* archive_cache_file renames whatever is at the path now, or fails.
LoadArchive(p) ==
  /\ loading[p].step = "archive"
  /\ loading' = [loading EXCEPT ![p].step = "put"]
  /\ disk' \in {Blank, disk}
  /\ UNCHANGED <<clock, guardVars, proc, mem, saving, pending, flush, scratch>>

\* One record enters its shard, under the lock of the shard.
LoadPut(p, k) ==
  /\ loading[p].step = "put" /\ loading[p].recs[k] # NoRecord
  /\ mem' = [mem EXCEPT ![p][k] = IF Taken(p, k, loading[p].only) THEN loading[p].recs[k] ELSE @]
  /\ loading' = [loading EXCEPT ![p].recs[k] = NoRecord]
  /\ UNCHANGED <<clock, guardVars, proc, saving, pending, fileVars>>

\* After the load at the start the persist task is spawned and queries come.
LoadEnd(p) ==
  /\ loading[p].step = "put" /\ loading[p].recs = Empty
  /\ loading' = [loading EXCEPT ![p] = NoLoad]
  /\ IF proc[p] = "reading"
     THEN Life(p, "up") /\ saving' = [saving EXCEPT ![p] = TRUE]
     ELSE UNCHANGED <<proc, saving>>
  /\ UNCHANGED <<clock, guardVars, mem, pending, fileVars>>

\* DnsCacheMiddleware::new: the file is read before the first query.
Boot(p, on) ==
  /\ proc[p] = "load"
  /\ IF on THEN LoadRead(p, FALSE) /\ Life(p, "reading")
           ELSE Life(p, "up") /\ UNCHANGED loading
  /\ UNCHANGED <<clock, guardVars, mem, saving, pending, fileVars>>

\* sync_persist_task: a reload switches persistence on, which also schedules
\* the load, or off.
Switch(p) ==
  /\ proc[p] = "up"
  /\ saving' = [saving EXCEPT ![p] = ~@]
  /\ pending' = [pending EXCEPT ![p] = @ \/ (~saving[p] /\ disk # Blank)]
  /\ UNCHANGED <<clock, guardVars, proc, mem, loading, fileVars>>

LoadMissing(p) ==
  /\ proc[p] = "up" /\ pending[p] /\ loading[p].step = "none"
  /\ LoadRead(p, TRUE)
  /\ pending' = [pending EXCEPT ![p] = FALSE]
  /\ UNCHANGED <<clock, guardVars, proc, mem, saving, fileVars>>

----------------------------------------------------------------------------
(* Writing the cache file.                                                 *)

FlushIs(p, s) == flush[p].step = s
FlushTo(p, s) == flush' = [flush EXCEPT ![p].step = s]

\* The periodic task ticks, or the process is about to exit: the temporary file
\* is created or truncated and gets its header.
FlushStart(p) ==
  /\ FlushIs(p, "idle")
  /\ proc[p] = "final" \/ (proc[p] = "up" /\ saving[p])
  /\ flush' = [flush EXCEPT ![p] =
       [step |-> "write", todo |-> Names, tries |-> 0, last |-> proc[p] = "final"]]
  /\ scratch' = [scratch EXCEPT ![p] =
       [rows |-> Empty, state |-> "part", synced |-> FALSE, mtime |-> clock]]
  /\ UNCHANGED <<clock, guardVars, proc, memVars, disk>>

\* BinEncodable: the time left or, negative, the time since the end.
Row(r) ==
  IF r = NoRecord THEN NoRecord
  ELSE [left |-> r.until - clock, born |-> r.born, due |-> r.due, at |-> clock]

\* serialize_many of one shard under its lock; an empty shard writes nothing.
WriteShard(p, k) ==
  /\ FlushIs(p, "write") /\ k \in flush[p].todo
  /\ scratch' = [scratch EXCEPT ![p].rows[k] = Row(mem[p][k]),
                                ![p].mtime = IF mem[p][k] = NoRecord THEN @ ELSE clock]
  /\ flush' = [flush EXCEPT ![p].todo = @ \ {k}]
  /\ UNCHANGED <<clock, guardVars, proc, memVars, disk>>

\* Mutant: the file is renamed without being synced.
Unsynced(f) == [f EXCEPT !.state = "whole"]

\* sync_all.
Synced(f) == [f EXCEPT !.state = "whole", !.synced = TRUE]

\* The shards of all keys have been written, the last of them at t.
Sync(p, t) ==
  /\ FlushIs(p, "write") /\ flush[p].todo = {}
  /\ t \in {scratch[p].mtime, clock}
  /\ scratch' = [scratch EXCEPT ![p] = Synced([@ EXCEPT !.mtime = t])]
  /\ FlushTo(p, "rename")
  /\ UNCHANGED <<clock, guardVars, proc, memVars, disk>>

\* persist_cache returns; the flush before the exit lets the process go on.
FlushEnds(p) ==
  /\ flush' = [flush EXCEPT ![p] = NoFlush]
  /\ scratch' = [scratch EXCEPT ![p] = Blank]
  /\ IF flush[p].last THEN Life(p, After("final")) ELSE UNCHANGED proc

Rename(p) ==
  /\ FlushIs(p, "rename")
  /\ disk' = scratch[p]
  /\ loading' = [loading EXCEPT ![p].overtaken = loading[p].step = "archive"]
  /\ FlushEnds(p)
  /\ UNCHANGED <<clock, guardVars, mem, saving, pending>>

\* What a failed rename leaves of the cache file.
Spoiled == disk

\* The rename fails: again after a pause, then the new file stays aside.
RenameFails(p) ==
  /\ FlushIs(p, "rename")
  /\ disk' = Spoiled
  /\ IF flush[p].tries < Retries
     THEN flush' = [flush EXCEPT ![p].tries = @ + 1] /\ UNCHANGED <<proc, scratch>>
     ELSE FlushEnds(p)
  /\ UNCHANGED <<clock, guardVars, memVars>>

\* run_server on a termination signal: with persistence the process goes on to
\* the last flush, which waits for one under way.
Terminate(p) ==
  /\ proc[p] = "up"
  /\ Life(p, IF saving[p] THEN "final" ELSE After("final"))
  /\ UNCHANGED <<clock, guardVars, memVars, fileVars>>

----------------------------------------------------------------------------
(* Lookups and faults.                                                     *)

\* insert_full_response.
Learn(p, k, ttl) ==
  /\ proc[p] = "up"
  /\ mem' = [mem EXCEPT ![p][k] = [until |-> clock + ttl, born |-> clock, due |-> clock + ttl]]
  /\ UNCHANGED <<clock, guardVars, proc, saving, pending, loading, fileVars>>

\* set_valid_until_for_prefetch: a stale hit has its record, and that of the
\* other address family, taken for current for the TTL of its reply.
Push(p, k) ==
  /\ proc[p] = "up" /\ mem[p][k] # NoRecord
  /\ mem[p][k].until < clock + ReplyTtl
  /\ mem' = [mem EXCEPT ![p][k].until = clock + ReplyTtl, ![p][k].due = clock + ReplyTtl]
  /\ UNCHANGED <<clock, guardVars, proc, saving, pending, loading, fileVars>>

\* purge_dead_records.
PurgeRecord(p, k) ==
  /\ proc[p] = "up" /\ mem[p][k] # NoRecord /\ clock > mem[p][k].until + Keep
  /\ mem' = [mem EXCEPT ![p][k] = NoRecord]
  /\ UNCHANGED <<clock, guardVars, proc, saving, pending, loading, fileVars>>

\* A process dies or ends: the system gives its lock back.
Die(gone) ==
  /\ holder' = IF holder \in gone THEN NoProc ELSE holder
  /\ proc' = [p \in Procs |-> IF p \in gone THEN "off" ELSE proc[p]]
  /\ mem' = [p \in Procs |-> IF p \in gone THEN Empty ELSE mem[p]]
  /\ saving' = [p \in Procs |-> p \notin gone /\ saving[p]]
  /\ pending' = [p \in Procs |-> p \notin gone /\ pending[p]]
  /\ wrote' = [p \in Procs |-> IF p \in gone THEN {} ELSE wrote[p]]
  /\ loading' = [p \in Procs |-> IF p \in gone THEN NoLoad ELSE loading[p]]
  /\ flush' = [p \in Procs |-> IF p \in gone THEN NoFlush ELSE flush[p]]
  /\ scratch' = [p \in Procs |-> IF p \in gone THEN Blank ELSE scratch[p]]
  /\ UNCHANGED <<clock, pidfile>>

Crash(p) ==
  /\ proc[p] # "off"
  /\ Die({p})
  /\ UNCHANGED disk

\* What a power failure leaves of a file.
Torn(f) == IF f = Blank \/ f.synced THEN f ELSE [f EXCEPT !.state = "part"]

PowerCut ==
  /\ \E p \in Procs : proc[p] # "off"
  /\ Die(Procs)
  /\ disk' = Torn(disk)

\* Somebody else damages the cache file.
Damage ==
  /\ disk # Blank /\ disk.state = "whole"
  /\ disk' = [disk EXCEPT !.state = "damaged"]
  /\ UNCHANGED <<clock, guardVars, proc, memVars, flush, scratch>>

PersistTick ==
  /\ clock < MaxClock
  /\ clock' = clock + 1
  /\ UNCHANGED <<guardVars, proc, memVars, fileVars>>

PersistNext ==
  \/ \E p \in Procs :
       \/ Claim(p) \/ WritePid(p) \/ Leave(p)
       \/ \E on \in BOOLEAN : Boot(p, on)
       \/ Switch(p) \/ LoadMissing(p) \/ LoadArchive(p) \/ LoadEnd(p)
       \/ FlushStart(p) \/ (\E t \in 0 .. clock : Sync(p, t)) \/ Rename(p) \/ RenameFails(p)
       \/ \E k \in Names : WriteShard(p, k) \/ LoadPut(p, k) \/ Push(p, k) \/ PurgeRecord(p, k)
       \/ \E k \in Names, ttl \in Lifetimes : Learn(p, k, ttl)
       \/ Terminate(p) \/ Crash(p)
  \/ PowerCut \/ Damage
  \/ PersistTick

PersistSpec == PersistInit /\ [][PersistNext]_persistVars

----------------------------------------------------------------------------
(* Properties.                                                             *)

\* The cache file is never an incomplete one, whenever a process dies, the
\* power fails or two flushes meet (persist_cache writes and syncs a temporary
\* file and renames it).
FileWhole == disk # Blank => disk.state # "part"

\* What was saved is lost in one way only: a complete cache file is taken away
\* (archive_cache_file) only by a load that had read a foreign or damaged one,
\* which a flush has replaced since.  A failed flush leaves the old file, and a
\* load never takes away the file it has read if that is complete.
SavedSurvives ==
  [][disk # Blank /\ disk.state = "whole" /\ disk' = Blank =>
       \E p \in Procs : loading[p].step = "archive" /\ loading[p].overtaken]_persistVars

\* A running process holds the lock, and every PID file it could write goes on
\* naming it: one that exits late never wipes the PID its successor has written
\* (ProcessGuard::drop), whatever writes and clearings fail.
OwnerNamed ==
  \A p \in Procs : proc[p] \in {"named", "load", "reading", "up", "final"} =>
    holder = p /\ \A f \in wrote[p] : pidfile[f] = p

\* A record restored from the file is taken for current only as long as the
\* upstream, or the last stale hit, has allowed, however long and how often the
\* process was down; each flush it went through adds at most the time from
\* writing its row to the flush's last write, which is the file's mtime.
FreshIsFresh ==
  \A p \in Procs, k \in Names :
    mem[p][k] # NoRecord /\ clock <= mem[p][k].until =>
      mem[p][k].until <= mem[p][k].due

\* Switching persistence on at run time never brings back an older answer
\* over one that was learnt meanwhile (load_cache_only_missing).
NewerKept ==
  [][\A p \in Procs, k \in Names :
       mem[p][k] # NoRecord /\ mem'[p][k] # NoRecord => mem'[p][k].born >= mem[p][k].born]_persistVars
=============================================================================
