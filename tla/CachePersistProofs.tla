------------------------ MODULE CachePersistProofs -------------------------
(***************************************************************************)
(* The cache file and the single-instance guard, for any processes, keys,  *)
(* TTLs and number of rename retries.                                      *)
(***************************************************************************)
EXTENDS CachePersist, TLAPS

Stages == {"off", "locked", "named", "load", "reading", "up", "final", "clearOwn", "clearLock", "unlock"}
Flushes == [step : {"idle", "write", "rename"}, todo : SUBSET Names, tries : Nat, last : BOOLEAN]
Loads == [step : {"none", "archive", "put"}, recs : [Names -> CacheRecords \cup {NoRecord}],
          only : BOOLEAN, overtaken : BOOLEAN]

\* The variables have their types.
PersistTyped ==
  /\ clock \in Nat
  /\ holder \in Procs \cup {NoProc}
  /\ pidfile \in [Paths -> Procs \cup {NoProc}]
  /\ wrote \in [Procs -> SUBSET Paths]
  /\ proc \in [Procs -> Stages]
  /\ mem \in [Procs -> [Names -> CacheRecords \cup {NoRecord}]]
  /\ saving \in [Procs -> BOOLEAN]
  /\ pending \in [Procs -> BOOLEAN]
  /\ loading \in [Procs -> Loads]
  /\ flush \in [Procs -> Flushes]
  /\ scratch \in [Procs -> CacheFiles \cup {Blank}]
  /\ disk \in CacheFiles \cup {Blank}

Early == {"off", "locked", "named", "load"}

\* A process that lives has the lock, and the PID files it has written name it
\* until it begins to clear them; only the last flush moves its life on.  What is
\* not restricted to missing keys is the load at the start.
Guarded ==
  \A p \in Procs :
    /\ proc[p] # "off" => holder = p
    /\ proc[p] \in {"off", "locked"} => wrote[p] = {}
    /\ proc[p] = "named" => wrote[p] \subseteq {PidPath[p]}
    /\ proc[p] \in {"named", "load", "reading", "up", "final"} => \A f \in wrote[p] : pidfile[f] = p
    /\ flush[p].last => proc[p] = "final"
    /\ proc[p] = "off" => flush[p].step = "idle"
    /\ proc[p] \in Early => loading[p].step = "none"
    /\ loading[p].step # "none" => loading[p].only \/ proc[p] = "reading"

\* The rows of a file say nothing about the time after they were written that
\* the upstream or a stale hit has not said.
RowsOK(f) ==
  \A k \in Names : f.rows[k] # NoRecord =>
    /\ f.rows[k].born <= f.rows[k].at /\ f.rows[k].at <= f.mtime
    /\ f.rows[k].left >= 0 => f.rows[k].at + f.rows[k].left <= f.rows[k].due

\* The temporary file of a flush under way is complete and synced before it is
\* renamed.
ScratchOK ==
  \A p \in Procs : flush[p].step # "idle" =>
    /\ scratch[p] \in CacheFiles /\ scratch[p].mtime <= clock /\ RowsOK(scratch[p])
    /\ flush[p].step = "rename" => scratch[p].state = "whole" /\ scratch[p].synced

\* The cache file is complete and synced.
DiskOK ==
  disk # Blank => disk.state # "part" /\ disk.synced /\ disk.mtime <= clock /\ RowsOK(disk)

\* A record is not from the future, and not taken for current for longer than it
\* may be.
RecOK(r) == r.born <= clock /\ (clock <= r.until => r.until <= r.due)

MemOK == \A p \in Procs, k \in Names : mem[p][k] # NoRecord => RecOK(mem[p][k])

\* What a load has decoded, too; what it condemned is no complete file unless a
\* flush has replaced it.
LoadOK ==
  \A p \in Procs :
    /\ \A k \in Names : loading[p].recs[k] # NoRecord => RecOK(loading[p].recs[k])
    /\ loading[p].step = "archive" /\ ~loading[p].overtaken => disk = Blank \/ disk.state # "whole"

\* The file is read into an empty cache.
EarlyEmpty ==
  \A p \in Procs, k \in Names :
    \/ proc[p] \in Early
    \/ proc[p] = "reading" /\ loading[p].recs[k] # NoRecord
    => mem[p][k] = NoRecord

PersistInv == PersistTyped /\ Guarded /\ ScratchOK /\ DiskOK /\ MemOK /\ LoadOK /\ EarlyEmpty

----------------------------------------------------------------------------

\* The constants of the module have the types of what they stand for.
LEMMA Shapes ==
  /\ Empty \in [Names -> CacheRecords \cup {NoRecord}] /\ Empty \in [Names -> FileRows \cup {NoRecord}]
  /\ NoFlush \in Flushes /\ NoFlush.step = "idle" /\ NoFlush.last = FALSE
  /\ NoLoad \in Loads /\ NoLoad.step = "none" /\ NoLoad.recs = Empty
  /\ Foreign \in CacheFiles /\ Foreign.state = "foreign" /\ Foreign.synced /\ Foreign.mtime = 0
  /\ RowsOK(Foreign)
  /\ \A p \in Procs : PidPath[p] \in Paths /\ PidPath[p] # LockPid
  /\ LockPid \in Paths
<1>1. Empty \in [Names -> CacheRecords \cup {NoRecord}] /\ Empty \in [Names -> FileRows \cup {NoRecord}]
  BY DEF Empty
<1>2. Foreign \in CacheFiles /\ RowsOK(Foreign)
  BY <1>1 DEF Foreign, CacheFiles, RowsOK, Empty
<1>3. NoFlush \in Flushes /\ NoFlush.step = "idle" /\ NoFlush.last = FALSE
  BY DEF NoFlush, Flushes
<1>4. Foreign.state = "foreign" /\ Foreign.synced /\ Foreign.mtime = 0
  BY DEF Foreign
<1>5. (\A p \in Procs : PidPath[p] \in Paths /\ PidPath[p] # LockPid) /\ LockPid \in Paths
  BY PersistAssumption DEF Paths
<1>6. NoLoad \in Loads /\ NoLoad.step = "none" /\ NoLoad.recs = Empty
  BY <1>1 DEF NoLoad, Loads
<1>7. QED
  BY <1>1, <1>2, <1>3, <1>4, <1>5, <1>6

\* The invariant holds initially.
LEMMA PersistInitial == PersistInit => PersistInv
<1> SUFFICES ASSUME PersistInit PROVE PersistInv
  OBVIOUS
<1>1. PersistTyped
  BY Shapes DEF PersistInit, PersistTyped, Stages
<1>2. Guarded /\ ScratchOK
  BY Shapes DEF PersistInit, Guarded, ScratchOK
<1>3. DiskOK
  BY Shapes DEF PersistInit, DiskOK
<1>4. MemOK /\ LoadOK /\ EarlyEmpty
  BY Shapes DEF PersistInit, MemOK, LoadOK, EarlyEmpty, Empty
<1>5. QED
  BY <1>1, <1>2, <1>3, <1>4 DEF PersistInv

----------------------------------------------------------------------------
(* Reading the file.                                                       *)

\* What a row says of the future is not stretched by clamping it and deducting
\* the time since the file was written (DnsCacheEntry::read).
LEMMA RestoredFacts ==
  ASSUME clock \in Nat, NEW f \in CacheFiles, NEW row \in FileRows,
         f.mtime <= clock, row.born <= row.at, row.at <= f.mtime,
         row.left >= 0 => row.at + row.left <= row.due
  PROVE  Restored(row, f) \in CacheRecords /\ RecOK(Restored(row, f))
<1>1. /\ f.mtime \in Nat /\ row.left \in Int /\ row.born \in Nat /\ row.due \in Nat /\ row.at \in Nat
      /\ FileLimit \in Nat \ {0}
  BY PersistAssumption DEF CacheFiles, FileRows
<1>2. PICK c \in Int : c = Clamp(row.left)
  BY <1>1 DEF Clamp
<1>3. c <= row.left \/ c < 0
  BY <1>1, <1>2 DEF Clamp
<1>4. /\ Restored(row, f).until = clock + c - (clock - f.mtime)
      /\ Restored(row, f).born = row.born /\ Restored(row, f).due = row.due + (f.mtime - row.at)
  BY <1>2 DEF Restored
<1>5. Restored(row, f) \in CacheRecords
  BY <1>1, <1>2 DEF Restored, CacheRecords
<1>6. c < 0 => f.mtime + c < clock
  BY <1>1
<1>7. Restored(row, f).born <= clock
  BY <1>1, <1>4
<1>8. clock <= Restored(row, f).until => Restored(row, f).until <= Restored(row, f).due
  BY <1>1, <1>3, <1>4, <1>6
<1>9. QED
  BY <1>5, <1>7, <1>8 DEF RecOK

\* What a load has decoded is as old and as current as the file says, and a
\* complete file is not condemned (load_cache_impl).
LEMMA LoadReadFacts ==
  ASSUME PersistInv, NEW p \in Procs, NEW only \in BOOLEAN, LoadRead(p, only)
  PROVE  \E l \in Loads :
           /\ loading' = [loading EXCEPT ![p] = l]
           /\ l.step # "none" /\ l.only = only /\ ~l.overtaken
           /\ \A k \in Names : l.recs[k] # NoRecord => RecOK(l.recs[k])
           /\ l.step = "archive" => disk.state # "whole"
<1>1. PICK rows \in SUBSET Names :
        /\ IF disk = Blank \/ disk.state = "foreign" THEN rows = {} ELSE Readable(disk, rows)
        /\ loading' = [loading EXCEPT ![p] =
             [step |-> IF Condemned(disk) THEN "archive" ELSE "put",
              recs |-> [k \in Names |-> IF k \in rows THEN Restored(disk.rows[k], disk) ELSE NoRecord],
              only |-> only, overtaken |-> FALSE]]
  BY DEF LoadRead
<1>2. ASSUME NEW k \in rows
      PROVE  Restored(disk.rows[k], disk) \in CacheRecords /\ RecOK(Restored(disk.rows[k], disk))
  <2>1. disk # Blank /\ Readable(disk, rows)
    BY <1>1, <1>2
  <2>2. disk \in CacheFiles /\ clock \in Nat /\ disk.mtime <= clock /\ RowsOK(disk)
    BY <2>1 DEF PersistInv, PersistTyped, DiskOK
  <2>3. k \in Names /\ disk.rows[k] # NoRecord /\ disk.rows[k] \in FileRows
    BY <1>2, <2>1, <2>2 DEF Readable, CacheFiles
  <2>4. /\ disk.rows[k].born <= disk.rows[k].at /\ disk.rows[k].at <= disk.mtime
        /\ disk.rows[k].left >= 0 => disk.rows[k].at + disk.rows[k].left <= disk.rows[k].due
    BY <2>2, <2>3 DEF RowsOK
  <2>5. QED
    BY <2>2, <2>3, <2>4, RestoredFacts
<1>3. PICK rs : rs = [k \in Names |-> IF k \in rows THEN Restored(disk.rows[k], disk) ELSE NoRecord]
  OBVIOUS
<1>4. /\ rs \in [Names -> CacheRecords \cup {NoRecord}]
      /\ \A k \in Names : rs[k] # NoRecord => RecOK(rs[k])
  BY <1>2, <1>3
<1>5. PICK l : l = [step |-> IF Condemned(disk) THEN "archive" ELSE "put", recs |-> rs,
                    only |-> only, overtaken |-> FALSE]
  OBVIOUS
<1>6. l \in Loads /\ l.step # "none" /\ l.recs = rs /\ l.only = only /\ l.overtaken = FALSE
  BY <1>4, <1>5 DEF Loads
<1>7. l.step = "archive" => disk.state # "whole"
  BY <1>5 DEF Condemned
<1>8. loading' = [loading EXCEPT ![p] = l]
  BY <1>1, <1>3, <1>5
<1>9. QED
  BY <1>4, <1>6, <1>7, <1>8

----------------------------------------------------------------------------
(* The life of a process.                                                  *)

\* Taking the lock and writing the PID files (ProcessGuard::create_with_lock).
LEMMA ClaimInv ==
  ASSUME PersistInv, NEW p \in Procs, Claim(p) \/ WritePid(p)
  PROVE  PersistInv'
<1>1. /\ UNCHANGED <<clock, mem, saving, pending, loading, flush, scratch, disk>>
      /\ proc[p] \in {"off", "locked", "named"}
      /\ \E s \in {"locked", "named", "load"} : proc' = [proc EXCEPT ![p] = s]
  BY DEF Claim, WritePid, Life, memVars, fileVars
<1>2. CASE Claim(p)
  <2>1. /\ proc[p] = "off" /\ holder = NoProc /\ holder' = p /\ UNCHANGED <<pidfile, wrote>>
        /\ proc' = [proc EXCEPT ![p] = "locked"]
    BY <1>2 DEF Claim, Life
  <2>2. PersistTyped'
    BY <1>1, <2>1 DEF PersistInv, PersistTyped, Stages
  <2>3. Guarded'
    BY <1>1, <2>1, PersistAssumption DEF PersistInv, PersistTyped, Guarded, Early
  <2>4. QED
    BY <1>1, <2>1, <2>2, <2>3
       DEF PersistInv, PersistTyped, ScratchOK, DiskOK, MemOK, LoadOK, RecOK, EarlyEmpty, Early
<1>3. CASE WritePid(p)
  <2>1. PICK f \in Paths : /\ PutPid(p, f) /\ holder' = holder
                           /\ \/ proc[p] = "locked" /\ f = PidPath[p] /\ proc' = [proc EXCEPT ![p] = "named"]
                              \/ proc[p] = "named" /\ f = LockPid /\ proc' = [proc EXCEPT ![p] = "load"]
    BY <1>3, Shapes DEF WritePid, Life
  <2>2. f \notin wrote[p] /\ holder = p /\ \A q \in Procs : q # p => proc[q] = "off"
    BY <2>1, Shapes DEF PersistInv, Guarded
  <2>3. /\ pidfile' \in [Paths -> Procs \cup {NoProc}] /\ wrote' \in [Procs -> SUBSET Paths]
        /\ \A g \in Paths \ {f} : pidfile'[g] = pidfile[g]
        /\ \A q \in Procs \ {p} : wrote'[q] = wrote[q]
        /\ wrote'[p] = wrote[p] \/ (wrote'[p] = wrote[p] \cup {f} /\ pidfile'[f] = p)
    <3>1. pidfile \in [Paths -> Procs \cup {NoProc}] /\ wrote \in [Procs -> SUBSET Paths]
      BY DEF PersistInv, PersistTyped
    <3>2. CASE pidfile' = [pidfile EXCEPT ![f] = p] /\ wrote' = [wrote EXCEPT ![p] = @ \cup {f}]
      BY <3>1, <3>2
    <3>3. CASE pidfile' = [pidfile EXCEPT ![f] = NoProc] /\ wrote' = wrote
      BY <3>1, <3>3
    <3>4. CASE pidfile' = pidfile /\ wrote' = wrote
      BY <3>1, <3>4
    <3>5. QED
      BY <2>1, <3>2, <3>3, <3>4 DEF PutPid
  <2>4. PersistTyped'
    BY <1>1, <2>1, <2>3 DEF PersistInv, PersistTyped, Stages
  <2>5. wrote[p] \subseteq Paths /\ (proc[p] = "named" => \A g \in wrote[p] : pidfile[g] = p)
        /\ (proc[p] = "locked" => wrote[p] = {})
    BY DEF PersistInv, PersistTyped, Guarded
  <2>6. \A g \in wrote'[p] : pidfile'[g] = p
    BY <2>1, <2>2, <2>3, <2>5
  <2>7. \A q \in Procs : proc'[q] = IF q = p THEN proc'[p] ELSE "off"
    BY <2>1, <2>2 DEF PersistInv, PersistTyped
  <2>8. proc'[p] = "named" => wrote'[p] \subseteq {PidPath[p]}
    BY <2>1, <2>3, <2>5 DEF PersistInv, PersistTyped
  <2>9. proc'[p] \in {"named", "load"} /\ proc[p] \in Early
    BY <2>1 DEF PersistInv, PersistTyped, Early
  <2>10. Guarded'
    BY <1>1, <2>1, <2>2, <2>3, <2>6, <2>7, <2>8, <2>9 DEF PersistInv, Guarded, Early
  <2>11. QED
    BY <1>1, <2>4, <2>10, <2>7, <2>9
       DEF PersistInv, PersistTyped, ScratchOK, DiskOK, MemOK, LoadOK, RecOK, EarlyEmpty, Early
<1>4. QED
  BY <1>2, <1>3

\* What a process that ends takes with it; the others keep what they have.
Gone(ps) ==
  /\ \A p \in ps : mem'[p] = Empty /\ (flush'[p] = NoFlush \/ (flush'[p] = flush[p] /\ scratch'[p] = scratch[p]))
                   /\ loading'[p] \in {NoLoad, loading[p]} /\ proc'[p] # "reading"
  /\ \A p \in Procs \ ps : /\ mem'[p] = mem[p] /\ flush'[p] = flush[p] /\ scratch'[p] = scratch[p]
                           /\ loading'[p] = loading[p] /\ proc'[p] = proc[p]
  /\ clock' = clock /\ disk' = disk

\* Neither records nor temporary files of the others are disturbed by it.
LEMMA GoneFacts ==
  ASSUME PersistInv, NEW ps \in SUBSET Procs, Gone(ps)
  PROVE  ScratchOK' /\ DiskOK' /\ MemOK' /\ LoadOK' /\ EarlyEmpty'
<1>1. ScratchOK' /\ DiskOK'
  BY Shapes DEF PersistInv, ScratchOK, DiskOK, Gone
<1>2. \A p \in Procs, k \in Names : mem'[p][k] = mem[p][k] \/ mem'[p][k] = NoRecord
  BY DEF Gone, Empty
<1>3. MemOK'
  BY <1>2 DEF PersistInv, MemOK, RecOK, Gone
<1>4. LoadOK'
  <2>1. \A p \in Procs : loading'[p] \in {NoLoad, loading[p]}
    BY DEF Gone
  <2>2. \A k \in Names : NoLoad.recs[k] = NoRecord
    BY Shapes DEF Empty
  <2>3. QED
    BY <2>1, <2>2, Shapes DEF PersistInv, LoadOK, RecOK, Gone
<1>5. EarlyEmpty'
  BY DEF PersistInv, EarlyEmpty, Gone, Empty
<1>6. QED
  BY <1>1, <1>3, <1>4, <1>5

\* A crash or a power failure at any point (the operating system gives the lock
\* back and leaves the files as they were synced).
LEMMA DieInv ==
  ASSUME PersistInv, PowerCut \/ \E p \in Procs : Crash(p)
  PROVE  PersistInv'
<1>1. PICK gone \in SUBSET Procs : Die(gone) /\ disk' = disk
  <2>1. Torn(disk) = disk
    BY DEF PersistInv, DiskOK, Torn
  <2>2. QED
    BY <2>1 DEF PowerCut, Crash
<1>2. PersistTyped'
  <2>1. /\ saving' \in [Procs -> BOOLEAN] /\ pending' \in [Procs -> BOOLEAN]
        /\ loading' \in [Procs -> Loads] /\ flush' \in [Procs -> Flushes]
        /\ scratch' \in [Procs -> CacheFiles \cup {Blank}]
    BY <1>1, Shapes DEF PersistInv, PersistTyped, Die
  <2>2. QED
    BY <1>1, <2>1, Shapes DEF PersistInv, PersistTyped, Die, Stages
<1>3. Guarded'
  <2>1. ASSUME NEW p \in gone PROVE proc'[p] = "off" /\ wrote'[p] = {} /\ ~flush'[p].last
                                    /\ flush'[p].step = "idle" /\ loading'[p].step = "none"
    BY <1>1, <2>1, Shapes DEF Die
  <2>2. ASSUME NEW p \in Procs \ gone
        PROVE  /\ proc'[p] = proc[p] /\ wrote'[p] = wrote[p] /\ flush'[p] = flush[p]
               /\ loading'[p] = loading[p] /\ pidfile' = pidfile
               /\ holder = p => holder' = p
    BY <1>1 DEF Die
  <2>3. QED
    BY <2>1, <2>2 DEF PersistInv, Guarded, Early
<1>4. Gone(gone)
  BY <1>1 DEF Die, Gone
<1>5. QED
  BY <1>2, <1>3, <1>4, GoneFacts DEF PersistInv

\* Clearing the PID files and releasing the lock (ProcessGuard::drop).
LEMMA LeaveInv ==
  ASSUME PersistInv, NEW p \in Procs, Leave(p)
  PROVE  PersistInv'
<1>1. /\ proc[p] \in Leaving /\ clock' = clock /\ disk' = disk
      /\ proc' = [proc EXCEPT ![p] = After(proc[p])]
      /\ mem' = [mem EXCEPT ![p] = Empty]
      /\ saving' = [saving EXCEPT ![p] = FALSE]
      /\ pending' = [pending EXCEPT ![p] = FALSE]
      /\ wrote' = [wrote EXCEPT ![p] = {}]
  BY DEF Leave, Life
<1>2. /\ After("clearOwn") = "clearLock" /\ After("clearLock") = "unlock" /\ After("unlock") = "off"
      /\ After("final") = "clearOwn"
  BY DEF After
<1>3. holder = p /\ \A q \in Procs : q # p => proc[q] = "off"
  BY <1>1 DEF PersistInv, Guarded, Leaving
<1>4. \/ flush' = flush /\ scratch' = scratch /\ loading' = loading /\ proc'[p] # "off"
      \/ /\ flush' = [flush EXCEPT ![p] = NoFlush] /\ scratch' = [scratch EXCEPT ![p] = Blank]
         /\ loading' = [loading EXCEPT ![p] = NoLoad]
  BY <1>1 DEF Leave, PersistInv, PersistTyped
<1>5. PersistTyped'
  <2>1. holder' \in Procs \cup {NoProc} /\ pidfile' \in [Paths -> Procs \cup {NoProc}]
    BY Shapes DEF Leave, PersistInv, PersistTyped
  <2>2. proc' \in [Procs -> Stages]
    BY <1>1, <1>2 DEF PersistInv, PersistTyped, Stages, Leaving
  <2>3. /\ flush' \in [Procs -> Flushes] /\ scratch' \in [Procs -> CacheFiles \cup {Blank}]
        /\ loading' \in [Procs -> Loads]
    BY <1>4, Shapes DEF PersistInv, PersistTyped
  <2>4. wrote' \in [Procs -> SUBSET Paths]
    BY <1>1 DEF PersistInv, PersistTyped
  <2>5. QED
    BY <1>1, <2>1, <2>2, <2>3, <2>4, Shapes DEF PersistInv, PersistTyped
<1>6. Guarded'
  <2>1. /\ \A q \in Procs : q # p => proc'[q] = "off"
        /\ proc'[p] \in {"clearLock", "unlock", "off"}
    BY <1>1, <1>2, <1>3 DEF PersistInv, PersistTyped, Leaving
  <2>2. \A q \in Procs : proc'[q] # "off" => holder' = q
    BY <1>1, <1>2, <1>3 DEF Leave, PersistInv, PersistTyped, Leaving
  <2>3. \A q \in Procs : /\ ~flush'[q].last /\ (proc'[q] = "off" => flush'[q].step = "idle")
                         /\ wrote'[q] = {}
    BY <1>1, <1>3, <1>4, <2>1, Shapes DEF PersistInv, PersistTyped, Guarded, Flushes, Leaving
  <2>4. \A q \in Procs : /\ proc'[q] = "off" => loading'[q].step = "none"
                         /\ loading'[q].step # "none" => loading'[q].only
    BY <1>1, <1>3, <1>4, <2>1, Shapes DEF PersistInv, PersistTyped, Guarded, Leaving, Early
  <2>5. QED
    BY <2>1, <2>2, <2>3, <2>4 DEF Guarded, Early
<1>7. Gone({p})
  BY <1>1, <1>2, <1>4 DEF Gone, PersistInv, PersistTyped, Leaving
<1>8. QED
  BY <1>5, <1>6, <1>7, GoneFacts DEF PersistInv

----------------------------------------------------------------------------
(* Loading.                                                                *)

\* Reading the file at start and when persistence is switched on
\* (DnsCacheMiddleware::new, load_cache_only_missing).
LEMMA BootInv ==
  ASSUME PersistInv, NEW p \in Procs, LoadMissing(p) \/ \E on \in BOOLEAN : Boot(p, on)
  PROVE  PersistInv'
<1>1. UNCHANGED <<clock, holder, pidfile, wrote, mem, saving, flush, scratch, disk>>
  BY DEF LoadMissing, Boot, guardVars, fileVars
<1>2. pending' \in [Procs -> BOOLEAN]
  BY DEF LoadMissing, Boot, PersistInv, PersistTyped
<1>3. CASE proc[p] = "load" /\ proc' = [proc EXCEPT ![p] = "up"] /\ loading' = loading
  <2>1. PersistTyped'
    BY <1>1, <1>2, <1>3 DEF PersistInv, PersistTyped, Stages
  <2>2. Guarded'
    BY <1>1, <1>3 DEF PersistInv, PersistTyped, Guarded, Early
  <2>3. ScratchOK' /\ DiskOK' /\ MemOK' /\ LoadOK'
    BY <1>1, <1>3 DEF PersistInv, ScratchOK, DiskOK, MemOK, LoadOK, RecOK
  <2>4. EarlyEmpty'
    BY <1>1, <1>3 DEF PersistInv, PersistTyped, EarlyEmpty, Early
  <2>5. QED
    BY <2>1, <2>2, <2>3, <2>4 DEF PersistInv
<1>4. ASSUME NEW only \in BOOLEAN, LoadRead(p, only),
             \/ only = TRUE /\ proc[p] = "up" /\ proc' = proc
             \/ only = FALSE /\ proc[p] = "load" /\ proc' = [proc EXCEPT ![p] = "reading"]
      PROVE  PersistInv'
  <2>1. PICK l \in Loads :
           /\ loading' = [loading EXCEPT ![p] = l]
           /\ l.step # "none" /\ l.only = only /\ ~l.overtaken
           /\ \A k \in Names : l.recs[k] # NoRecord => RecOK(l.recs[k])
           /\ l.step = "archive" => disk.state # "whole"
    BY <1>4, LoadReadFacts
  <2>2. PersistTyped'
    BY <1>1, <1>2, <1>4, <2>1 DEF PersistInv, PersistTyped, Stages
  <2>3. \A q \in Procs : loading'[q] = IF q = p THEN l ELSE loading[q]
    BY <2>1 DEF PersistInv, PersistTyped
  <2>4. \A q \in Procs : q # p => proc'[q] = proc[q]
    BY <1>4 DEF PersistInv, PersistTyped
  <2>5. (only /\ proc'[p] = "up" /\ proc[p] = "up") \/ (~only /\ proc'[p] = "reading" /\ proc[p] = "load")
    BY <1>4 DEF PersistInv, PersistTyped
  <2>6. Guarded'
    BY <1>1, <2>1, <2>3, <2>4, <2>5 DEF PersistInv, Guarded, Early
  <2>7. ScratchOK' /\ DiskOK' /\ MemOK'
    BY <1>1 DEF PersistInv, ScratchOK, DiskOK, MemOK, RecOK
  <2>8. LoadOK'
    BY <1>1, <2>1, <2>3 DEF PersistInv, LoadOK, RecOK
  <2>9. EarlyEmpty'
    BY <1>1, <2>3, <2>4, <2>5 DEF PersistInv, EarlyEmpty, Early
  <2>10. QED
    BY <2>2, <2>6, <2>7, <2>8, <2>9 DEF PersistInv
<1>5. QED
  BY <1>3, <1>4 DEF LoadMissing, Boot, Life

\* The path is renamed away, whatever is there now (archive_cache_file).
LEMMA ArchiveInv ==
  ASSUME PersistInv, NEW p \in Procs, LoadArchive(p)
  PROVE  PersistInv'
<1>1. /\ UNCHANGED <<clock, holder, pidfile, wrote, proc, mem, saving, pending, flush, scratch>>
      /\ loading[p].step = "archive" /\ disk' \in {Blank, disk}
  BY DEF LoadArchive, guardVars
<1>2. PICK l : l = [loading[p] EXCEPT !.step = "put"]
  OBVIOUS
<1>3. loading' = [loading EXCEPT ![p] = l] /\ loading[p] \in Loads
  BY <1>2 DEF LoadArchive, PersistInv, PersistTyped
<1>4. l \in Loads /\ l.step = "put" /\ l.recs = loading[p].recs /\ l.only = loading[p].only
  BY <1>2, <1>3 DEF Loads
<1>5. \A q \in Procs : loading'[q] = IF q = p THEN l ELSE loading[q]
  BY <1>3 DEF PersistInv, PersistTyped
<1>6. PersistTyped'
  BY <1>1, <1>3, <1>4 DEF PersistInv, PersistTyped
<1>7. Guarded' /\ ScratchOK' /\ DiskOK' /\ MemOK' /\ EarlyEmpty'
  BY <1>1, <1>4, <1>5 DEF PersistInv, Guarded, Early, ScratchOK, DiskOK, MemOK, RecOK, EarlyEmpty
<1>8. LoadOK'
  BY <1>1, <1>4, <1>5 DEF PersistInv, LoadOK, RecOK
<1>9. QED
  BY <1>6, <1>7, <1>8 DEF PersistInv

\* One record enters the cache (load_cache_impl).
LEMMA PutInv ==
  ASSUME PersistInv, NEW p \in Procs, NEW k \in Names, LoadPut(p, k)
  PROVE  PersistInv'
<1>1. /\ UNCHANGED <<clock, holder, pidfile, wrote, proc, saving, pending, flush, scratch, disk>>
      /\ loading[p].step = "put" /\ loading[p].recs[k] # NoRecord
  BY DEF LoadPut, guardVars, fileVars
<1>2. PICK l : l = [loading[p] EXCEPT !.recs[k] = NoRecord]
  OBVIOUS
<1>3. PICK r : r = IF Taken(p, k, loading[p].only) THEN loading[p].recs[k] ELSE mem[p][k]
  OBVIOUS
<1>4. /\ loading' = [loading EXCEPT ![p] = l] /\ loading[p] \in Loads
      /\ mem' = [mem EXCEPT ![p][k] = r]
  BY <1>2, <1>3 DEF LoadPut, PersistInv, PersistTyped
<1>5. /\ l \in Loads /\ l.step = "put" /\ l.only = loading[p].only
      /\ \A j \in Names : l.recs[j] = IF j = k THEN NoRecord ELSE loading[p].recs[j]
  BY <1>1, <1>2, <1>4 DEF Loads
<1>6. \A q \in Procs : loading'[q] = IF q = p THEN l ELSE loading[q]
  BY <1>4 DEF PersistInv, PersistTyped
<1>7. \A q \in Procs, j \in Names : mem'[q][j] = IF q = p /\ j = k THEN r ELSE mem[q][j]
  BY <1>4 DEF PersistInv, PersistTyped
<1>8. r \in CacheRecords \cup {NoRecord} /\ (r # NoRecord => RecOK(r))
  <2>1. loading[p].recs[k] \in CacheRecords \cup {NoRecord} /\ mem[p][k] \in CacheRecords \cup {NoRecord}
    BY <1>4 DEF Loads, PersistInv, PersistTyped
  <2>2. QED
    BY <1>3, <2>1 DEF PersistInv, LoadOK, MemOK
<1>9. PersistTyped'
  BY <1>1, <1>4, <1>5, <1>8 DEF PersistInv, PersistTyped
<1>10. Guarded' /\ ScratchOK' /\ DiskOK'
  BY <1>1, <1>5, <1>6 DEF PersistInv, Guarded, Early, ScratchOK, DiskOK
<1>11. MemOK'
  BY <1>1, <1>7, <1>8 DEF PersistInv, MemOK, RecOK
<1>12. LoadOK'
  BY <1>1, <1>5, <1>6 DEF PersistInv, LoadOK, RecOK
<1>13. EarlyEmpty'
  <2>1. proc[p] \notin Early
    BY <1>1 DEF PersistInv, Guarded
  <2>2. QED
    BY <1>1, <1>5, <1>6, <1>7, <2>1 DEF PersistInv, EarlyEmpty
<1>14. QED
  BY <1>9, <1>10, <1>11, <1>12, <1>13 DEF PersistInv

\* The load is over; after the one at the start the process serves.
LEMMA EndInv ==
  ASSUME PersistInv, NEW p \in Procs, LoadEnd(p)
  PROVE  PersistInv'
<1>1. /\ UNCHANGED <<clock, holder, pidfile, wrote, mem, pending, flush, scratch, disk>>
      /\ loading[p].step = "put" /\ loading' = [loading EXCEPT ![p] = NoLoad]
      /\ \/ proc[p] = "reading" /\ proc' = [proc EXCEPT ![p] = "up"]
         \/ proc[p] # "reading" /\ proc' = proc
      /\ saving' \in [Procs -> BOOLEAN]
  BY DEF LoadEnd, Life, guardVars, fileVars, PersistInv, PersistTyped
<1>2. \A q \in Procs : loading'[q] = IF q = p THEN NoLoad ELSE loading[q]
  BY <1>1 DEF PersistInv, PersistTyped
<1>3. /\ \A q \in Procs : q # p => proc'[q] = proc[q]
      /\ \/ proc[p] = "reading" /\ proc'[p] = "up"
         \/ proc[p] # "reading" /\ proc'[p] = proc[p]
  BY <1>1 DEF PersistInv, PersistTyped
<1>4. PersistTyped'
  BY <1>1, Shapes DEF PersistInv, PersistTyped, Stages
<1>5. Guarded'
  BY <1>1, <1>2, <1>3, Shapes DEF PersistInv, Guarded, Early
<1>6. ScratchOK' /\ DiskOK' /\ MemOK'
  BY <1>1 DEF PersistInv, ScratchOK, DiskOK, MemOK, RecOK
<1>7. \A k \in Names : NoLoad.recs[k] = NoRecord
  BY Shapes DEF Empty
<1>8. LoadOK'
  BY <1>1, <1>2, <1>7, Shapes DEF PersistInv, LoadOK, RecOK
<1>9. EarlyEmpty'
  BY <1>1, <1>2, <1>3, <1>7 DEF PersistInv, EarlyEmpty, Early
<1>10. QED
  BY <1>4, <1>5, <1>6, <1>8, <1>9 DEF PersistInv

\* Switching persistence, being told to stop, somebody damaging the file, and
\* time.
LEMMA RestInv ==
  ASSUME PersistInv, Damage \/ PersistTick \/ \E p \in Procs : Switch(p) \/ Terminate(p)
  PROVE  PersistInv'
<1>1. ASSUME NEW p \in Procs, Switch(p) \/ Terminate(p) PROVE PersistInv'
  <2>1. /\ UNCHANGED <<clock, holder, pidfile, wrote, mem, loading, flush, scratch, disk>> /\ proc[p] = "up"
        /\ proc' = proc \/ \E s \in {"final", "clearOwn"} : proc' = [proc EXCEPT ![p] = s]
        /\ saving' \in [Procs -> BOOLEAN] /\ pending' \in [Procs -> BOOLEAN]
    BY <1>1 DEF Switch, Terminate, Life, After, guardVars, memVars, fileVars, PersistInv, PersistTyped
  <2>2. PersistTyped'
    BY <2>1 DEF PersistInv, PersistTyped, Stages
  <2>3. Guarded' /\ EarlyEmpty'
    BY <2>1 DEF PersistInv, PersistTyped, Guarded, EarlyEmpty, Early
  <2>4. ScratchOK' /\ DiskOK' /\ MemOK' /\ LoadOK'
    BY <2>1 DEF PersistInv, ScratchOK, DiskOK, MemOK, LoadOK, RecOK
  <2>5. QED
    BY <2>2, <2>3, <2>4 DEF PersistInv
<1>2. ASSUME Damage PROVE PersistInv'
  <2>1. /\ disk \in CacheFiles /\ disk' = [disk EXCEPT !.state = "damaged"]
        /\ UNCHANGED <<clock, holder, pidfile, wrote, proc, mem, saving, pending, loading, flush, scratch>>
    BY <1>2 DEF Damage, guardVars, memVars, PersistInv, PersistTyped
  <2>2. /\ disk' \in CacheFiles /\ disk'.state = "damaged" /\ disk'.rows = disk.rows
        /\ disk'.mtime = disk.mtime /\ disk'.synced = disk.synced
    BY <2>1 DEF CacheFiles
  <2>3. PersistTyped' /\ Guarded' /\ ScratchOK' /\ MemOK' /\ LoadOK' /\ EarlyEmpty'
    BY <2>1, <2>2 DEF PersistInv, PersistTyped, Guarded, ScratchOK, MemOK, LoadOK, RecOK, EarlyEmpty
  <2>4. DiskOK'
    BY <1>2, <2>1, <2>2 DEF PersistInv, DiskOK, RowsOK, Damage
  <2>5. QED
    BY <2>3, <2>4 DEF PersistInv
<1>3. ASSUME PersistTick PROVE PersistInv'
  <2>1. /\ clock' = clock + 1 /\ clock \in Nat
        /\ UNCHANGED <<holder, pidfile, wrote, proc, mem, saving, pending, loading, flush, scratch, disk>>
    BY <1>3 DEF PersistTick, guardVars, memVars, fileVars, PersistInv, PersistTyped
  <2>2. PersistTyped' /\ Guarded' /\ EarlyEmpty'
    BY <2>1 DEF PersistInv, PersistTyped, Guarded, EarlyEmpty
  <2>3. DiskOK' /\ ScratchOK'
    <3>1. \A p \in Procs : flush[p].step # "idle" => scratch[p].mtime \in Nat
      BY DEF PersistInv, ScratchOK, CacheFiles
    <3>2. disk # Blank => disk.mtime \in Nat
      BY DEF PersistInv, PersistTyped, CacheFiles
    <3>3. QED
      BY <2>1, <3>1, <3>2 DEF PersistInv, DiskOK, ScratchOK
  <2>4. ASSUME NEW r \in CacheRecords, RecOK(r) PROVE RecOK(r)'
    BY <2>1, <2>4 DEF RecOK, CacheRecords
  <2>5. MemOK'
    <3>1. \A p \in Procs, k \in Names : mem[p][k] # NoRecord => mem[p][k] \in CacheRecords
      BY DEF PersistInv, PersistTyped
    <3>2. QED
      BY <2>1, <2>4, <3>1 DEF PersistInv, MemOK, CacheRecords, RecOK
  <2>6. LoadOK'
    <3>1. \A p \in Procs, k \in Names :
            loading[p].recs[k] # NoRecord => loading[p].recs[k] \in CacheRecords
      BY DEF PersistInv, PersistTyped, Loads
    <3>2. QED
      BY <2>1, <3>1 DEF PersistInv, LoadOK, CacheRecords, RecOK
  <2>7. QED
    BY <2>2, <2>3, <2>5, <2>6 DEF PersistInv
<1>4. QED
  BY <1>1, <1>2, <1>3

\* Lookups: storing an answer, a stale hit and purging a dead record
\* (insert_full_response, set_valid_until_for_prefetch, purge_dead_records).
LEMMA LearnInv ==
  ASSUME PersistInv, NEW p \in Procs, NEW k \in Names,
         PurgeRecord(p, k) \/ Push(p, k) \/ \E ttl \in Lifetimes : Learn(p, k, ttl)
  PROVE  PersistInv'
<1>1. /\ UNCHANGED <<clock, holder, pidfile, wrote, proc, saving, pending, loading, flush, scratch, disk>>
      /\ proc[p] = "up" /\ clock \in Nat
  BY DEF PurgeRecord, Learn, Push, guardVars, fileVars, PersistInv, PersistTyped
<1> DEFINE Put(r) == /\ mem' = [mem EXCEPT ![p][k] = r]
                     /\ r # NoRecord => r.born <= clock /\ r.until = r.due
<1>2. PICK r \in CacheRecords \cup {NoRecord} : Put(r)
  <2>1. CASE PurgeRecord(p, k)
    BY <2>1 DEF PurgeRecord
  <2>2. ASSUME NEW ttl \in Lifetimes, Learn(p, k, ttl)
        PROVE  \E r \in CacheRecords \cup {NoRecord} : Put(r)
    <3>1. PICK r : r = [until |-> clock + ttl, born |-> clock, due |-> clock + ttl]
      OBVIOUS
    <3>2. ttl \in Nat /\ clock \in Nat
      BY PersistAssumption DEF PersistInv, PersistTyped
    <3>3. r \in CacheRecords /\ r.born <= clock /\ r.until = r.due
      BY <3>1, <3>2 DEF CacheRecords
    <3>4. QED
      BY <2>2, <3>1, <3>3 DEF Learn
  <2>3. CASE Push(p, k)
    <3>1. PICK old \in CacheRecords : old = mem[p][k] /\ old.born <= clock
      BY <2>3 DEF Push, PersistInv, PersistTyped, MemOK, RecOK
    <3>2. PICK r : r = [old EXCEPT !.until = clock + ReplyTtl, !.due = clock + ReplyTtl]
      OBVIOUS
    <3>3. r \in CacheRecords /\ r.born <= clock /\ r.until = r.due
      <4>1. PICK n \in Nat : n = clock + ReplyTtl
        BY <1>1, PersistAssumption
      <4>2. r = [old EXCEPT !.until = n, !.due = n] /\ n \in Int
        BY <3>2, <4>1
      <4>3. QED
        BY <3>1, <4>2 DEF CacheRecords
    <3>4. mem' = [mem EXCEPT ![p][k] = r]
      BY <2>3, <3>1, <3>2 DEF Push, PersistInv, PersistTyped
    <3>5. QED
      BY <3>3, <3>4
  <2>4. QED
    BY <2>1, <2>2, <2>3
<1>3. \A q \in Procs, j \in Names : mem'[q][j] = IF q = p /\ j = k THEN r ELSE mem[q][j]
  BY <1>2 DEF PersistInv, PersistTyped
<1>4. PersistTyped'
  BY <1>1, <1>2 DEF PersistInv, PersistTyped
<1>5. Guarded' /\ ScratchOK' /\ DiskOK' /\ LoadOK'
  BY <1>1 DEF PersistInv, Guarded, ScratchOK, DiskOK, LoadOK, RecOK
<1>6. EarlyEmpty'
  BY <1>1, <1>3 DEF PersistInv, EarlyEmpty, Early
<1>7. MemOK'
  <2>1. r # NoRecord => r.born <= clock /\ r.until <= r.due
    BY <1>2 DEF CacheRecords, PersistInv, PersistTyped
  <2>2. QED
    BY <1>1, <1>3, <2>1 DEF PersistInv, MemOK, RecOK
<1>8. QED
  BY <1>4, <1>5, <1>6, <1>7 DEF PersistInv

----------------------------------------------------------------------------
(* Writing the file.                                                       *)

\* A row says of a record what is left of it now (BinEncodable).
LEMMA RowFacts ==
  ASSUME PersistInv, NEW p \in Procs, NEW k \in Names
  PROVE  /\ Row(mem[p][k]) \in FileRows \cup {NoRecord}
         /\ Row(mem[p][k]) # NoRecord =>
              /\ mem[p][k] # NoRecord
              /\ Row(mem[p][k]).born <= clock /\ Row(mem[p][k]).at = clock
              /\ Row(mem[p][k]).left >= 0 => clock + Row(mem[p][k]).left <= Row(mem[p][k]).due
<1>1. CASE mem[p][k] = NoRecord
  BY <1>1 DEF Row
<1>2. CASE mem[p][k] # NoRecord
  <2>1. /\ mem[p][k] \in CacheRecords /\ mem[p][k].born <= clock /\ clock \in Nat
        /\ clock <= mem[p][k].until => mem[p][k].until <= mem[p][k].due
    BY <1>2 DEF PersistInv, PersistTyped, MemOK, RecOK
  <2>2. QED
    BY <1>2, <2>1 DEF Row, CacheRecords, FileRows
<1>3. QED
  BY <1>1, <1>2

\* A new temporary file, and one more shard in it (persist_cache).
LEMMA WriteInv ==
  ASSUME PersistInv, NEW p \in Procs, FlushStart(p) \/ \E k \in Names : WriteShard(p, k)
  PROVE  PersistInv'
<1>1. UNCHANGED <<clock, holder, pidfile, wrote, proc, mem, saving, pending, loading, disk>>
  BY DEF FlushStart, WriteShard, guardVars, memVars
<1> DEFINE Made(f, file) ==
      /\ flush' = [flush EXCEPT ![p] = f] /\ scratch' = [scratch EXCEPT ![p] = file]
      /\ f.step = "write" /\ (f.last => proc[p] = "final") /\ proc[p] # "off"
      /\ file.mtime <= clock /\ RowsOK(file)
<1>2. PICK f \in Flushes, file \in CacheFiles : Made(f, file)
  <2>1. CASE FlushStart(p)
    <3>1. PICK f : f = [step |-> "write", todo |-> Names, tries |-> 0, last |-> proc[p] = "final"]
      OBVIOUS
    <3>2. PICK file : file = [rows |-> Empty, state |-> "part", synced |-> FALSE, mtime |-> clock]
      OBVIOUS
    <3>3. f \in Flushes /\ file \in CacheFiles /\ file.mtime <= clock
      BY <3>1, <3>2, Shapes DEF Flushes, CacheFiles, PersistInv, PersistTyped
    <3>4. RowsOK(file)
      BY <3>2 DEF RowsOK, Empty
    <3>5. proc[p] # "off"
      BY <2>1 DEF FlushStart
    <3>6. QED
      BY <2>1, <3>1, <3>2, <3>3, <3>4, <3>5 DEF FlushStart
  <2>2. ASSUME NEW k \in Names, WriteShard(p, k)
        PROVE  \E f \in Flushes, file \in CacheFiles : Made(f, file)
    <3>1. /\ flush[p].step = "write" /\ flush[p] \in Flushes /\ clock \in Nat
          /\ scratch[p] \in CacheFiles /\ scratch[p].mtime <= clock /\ RowsOK(scratch[p])
      BY <2>2 DEF WriteShard, FlushIs, PersistInv, PersistTyped, ScratchOK
    <3>2. PICK f : f = [flush[p] EXCEPT !.todo = @ \ {k}]
      OBVIOUS
    <3>3. PICK m : m = IF mem[p][k] = NoRecord THEN scratch[p].mtime ELSE clock
      OBVIOUS
    <3>4. PICK file : file = [scratch[p] EXCEPT !.rows[k] = Row(mem[p][k]), !.mtime = m]
      OBVIOUS
    <3>5. f \in Flushes /\ f.step = "write" /\ f.last = flush[p].last
      BY <3>1, <3>2 DEF Flushes
    <3>6. m \in Nat /\ scratch[p].mtime \in Nat /\ m <= clock /\ scratch[p].mtime <= m
          /\ (mem[p][k] # NoRecord => m = clock)
      BY <3>1, <3>3 DEF CacheFiles
    <3>7. /\ file \in CacheFiles /\ file.mtime = m
          /\ \A j \in Names : file.rows[j] = IF j = k THEN Row(mem[p][k]) ELSE scratch[p].rows[j]
      BY <3>1, <3>4, <3>6, RowFacts DEF CacheFiles
    <3>8. RowsOK(file)
      <4>1. SUFFICES ASSUME NEW j \in Names, file.rows[j] # NoRecord
                     PROVE  /\ file.rows[j].born <= file.rows[j].at /\ file.rows[j].at <= file.mtime
                            /\ file.rows[j].left >= 0 =>
                                 file.rows[j].at + file.rows[j].left <= file.rows[j].due
        BY DEF RowsOK
      <4>2. CASE j = k
        BY <3>1, <3>6, <3>7, <4>1, <4>2, RowFacts
      <4>3. CASE j # k
        <5>1. file.rows[j] = scratch[p].rows[j] /\ file.rows[j] \in FileRows
          BY <3>1, <3>7, <4>1, <4>3 DEF CacheFiles
        <5>2. file.rows[j].at \in Nat
          BY <5>1 DEF FileRows
        <5>3. QED
          BY <3>1, <3>6, <3>7, <4>1, <5>1, <5>2 DEF RowsOK
      <4>4. QED
        BY <4>2, <4>3
    <3>9. flush' = [flush EXCEPT ![p] = f] /\ scratch' = [scratch EXCEPT ![p] = file]
      BY <2>2, <3>2, <3>3, <3>4 DEF WriteShard, PersistInv, PersistTyped, CacheFiles
    <3>10. QED
      BY <3>1, <3>5, <3>6, <3>7, <3>8, <3>9 DEF PersistInv, Guarded
  <2>3. QED
    BY <2>1, <2>2
<1>3. PersistTyped'
  BY <1>1, <1>2 DEF PersistInv, PersistTyped
<1>4. Guarded'
  BY <1>1, <1>2 DEF PersistInv, PersistTyped, Guarded
<1>5. ScratchOK'
  BY <1>1, <1>2 DEF PersistInv, PersistTyped, ScratchOK
<1>6. DiskOK' /\ MemOK' /\ LoadOK' /\ EarlyEmpty'
  BY <1>1 DEF PersistInv, DiskOK, MemOK, LoadOK, RecOK, EarlyEmpty
<1>7. QED
  BY <1>3, <1>4, <1>5, <1>6 DEF PersistInv

\* Only a complete and synced file is renamed (sync_all before rename).
LEMMA SyncInv ==
  ASSUME PersistInv, NEW p \in Procs, \E t \in 0 .. clock : Sync(p, t)
  PROVE  PersistInv'
<1>0. PICK t \in 0 .. clock : Sync(p, t)
  OBVIOUS
<1>1. UNCHANGED <<clock, holder, pidfile, wrote, proc, mem, saving, pending, loading, disk>>
  BY <1>0 DEF Sync, guardVars, memVars
<1>2. /\ flush[p].step = "write" /\ flush[p] \in Flushes
      /\ scratch[p] \in CacheFiles /\ scratch[p].mtime <= clock /\ RowsOK(scratch[p])
      /\ clock \in Nat /\ t \in {scratch[p].mtime, clock}
  BY <1>0 DEF Sync, FlushIs, PersistInv, PersistTyped, ScratchOK
<1>3. PICK f : f = [flush[p] EXCEPT !.step = "rename"]
  OBVIOUS
<1>4. PICK file : file = [[scratch[p] EXCEPT !.mtime = t] EXCEPT !.state = "whole", !.synced = TRUE]
  OBVIOUS
<1>5. flush' = [flush EXCEPT ![p] = f] /\ scratch' = [scratch EXCEPT ![p] = file]
  BY <1>0, <1>3, <1>4 DEF Sync, FlushTo, Synced, PersistInv, PersistTyped
<1>6. f \in Flushes /\ f.step = "rename" /\ f.last = flush[p].last
  BY <1>2, <1>3 DEF Flushes
<1>7. scratch[p].mtime \in Nat /\ t \in Nat /\ scratch[p].mtime <= t /\ t <= clock
  BY <1>2 DEF CacheFiles
<1>8. /\ file \in CacheFiles /\ file.state = "whole" /\ file.synced
      /\ file.mtime = t /\ file.rows = scratch[p].rows
  BY <1>2, <1>4, <1>7 DEF CacheFiles
<1>9. RowsOK(file)
  <2>1. \A k \in Names : scratch[p].rows[k] # NoRecord => scratch[p].rows[k].at \in Nat
    BY <1>2 DEF CacheFiles, FileRows
  <2>2. QED
    BY <1>2, <1>7, <1>8, <2>1 DEF RowsOK
<1>10. PersistTyped'
  BY <1>1, <1>5, <1>6, <1>8 DEF PersistInv, PersistTyped
<1>11. Guarded'
  BY <1>1, <1>2, <1>5, <1>6 DEF PersistInv, PersistTyped, Guarded
<1>12. ScratchOK'
  BY <1>1, <1>5, <1>6, <1>7, <1>8, <1>9 DEF PersistInv, PersistTyped, ScratchOK
<1>13. DiskOK' /\ MemOK' /\ LoadOK' /\ EarlyEmpty'
  BY <1>1 DEF PersistInv, DiskOK, MemOK, LoadOK, RecOK, EarlyEmpty
<1>14. QED
  BY <1>10, <1>11, <1>12, <1>13 DEF PersistInv

\* The rename puts the new file in place of the old one, also under a load that
\* has condemned the old one; a rename that fails is tried again or leaves the
\* old file.
LEMMA RenameInv ==
  ASSUME PersistInv, NEW p \in Procs, Rename(p) \/ RenameFails(p)
  PROVE  PersistInv'
<1>1. UNCHANGED <<clock, holder, pidfile, wrote, mem, saving, pending>>
  BY DEF Rename, RenameFails, guardVars, memVars
<1>2. /\ flush[p].step = "rename" /\ flush[p] \in Flushes
      /\ scratch[p] \in CacheFiles /\ scratch[p].mtime <= clock /\ RowsOK(scratch[p])
      /\ scratch[p].state = "whole" /\ scratch[p].synced
  BY DEF Rename, RenameFails, FlushIs, PersistInv, PersistTyped, ScratchOK
<1>3. disk' = disk \/ disk' = scratch[p]
  BY DEF Rename, RenameFails, Spoiled
<1>4. DiskOK' /\ disk' \in CacheFiles \cup {Blank}
  BY <1>1, <1>2, <1>3 DEF PersistInv, PersistTyped, DiskOK, CacheFiles
<1>5. MemOK'
  BY <1>1 DEF PersistInv, MemOK, RecOK
<1>6. PICK l \in Loads :
        /\ loading' = [loading EXCEPT ![p] = l]
        /\ l.step = loading[p].step /\ l.recs = loading[p].recs /\ l.only = loading[p].only
        /\ disk' # disk /\ l.step = "archive" => l.overtaken
        /\ l.overtaken \/ (l.step # "archive" \/ ~loading[p].overtaken)
  <2>1. loading \in [Procs -> Loads] /\ loading[p] \in Loads
    BY DEF PersistInv, PersistTyped
  <2>2. CASE Rename(p)
    <3>1. PICK o \in BOOLEAN : o = (loading[p].step = "archive")
      OBVIOUS
    <3>2. PICK l : l = [loading[p] EXCEPT !.overtaken = o]
      OBVIOUS
    <3>3. l \in Loads /\ l.step = loading[p].step /\ l.recs = loading[p].recs /\ l.only = loading[p].only
          /\ l.overtaken = o
      BY <2>1, <3>2 DEF Loads
    <3>4. loading' = [loading EXCEPT ![p] = l]
      BY <2>1, <2>2, <3>1, <3>2 DEF Rename
    <3>5. QED
      BY <3>1, <3>3, <3>4
  <2>3. CASE RenameFails(p)
    <3>1. loading' = [loading EXCEPT ![p] = loading[p]] /\ disk' = disk
      BY <2>1, <2>3 DEF RenameFails, memVars, Spoiled
    <3>2. QED
      BY <2>1, <3>1
  <2>4. QED
    BY <2>2, <2>3
<1>7. \A q \in Procs : loading'[q] = IF q = p THEN l ELSE loading[q]
  BY <1>6 DEF PersistInv, PersistTyped
<1>8. \A q \in Procs : q # p => loading[q].step = "none"
  BY <1>2 DEF PersistInv, Guarded, Early
<1>9. LoadOK'
  BY <1>1, <1>6, <1>7, <1>8 DEF PersistInv, LoadOK, RecOK
<1>10. CASE FlushEnds(p)
  <2>1. /\ flush' = [flush EXCEPT ![p] = NoFlush] /\ scratch' = [scratch EXCEPT ![p] = Blank]
        /\ proc' = proc \/ (proc[p] = "final" /\ proc' = [proc EXCEPT ![p] = "clearOwn"])
    BY <1>10 DEF FlushEnds, Life, After, PersistInv, Guarded
  <2>2. PersistTyped'
    BY <1>1, <1>4, <1>6, <2>1, Shapes DEF PersistInv, PersistTyped, Stages
  <2>3. \A q \in Procs : proc'[q] = proc[q] \/ (q = p /\ proc[q] = "final" /\ proc'[q] = "clearOwn")
    BY <2>1 DEF PersistInv, PersistTyped
  <2>4. \A q \in Procs : flush'[q] = IF q = p THEN NoFlush ELSE flush[q]
    BY <2>1 DEF PersistInv, PersistTyped
  <2>5. Guarded' /\ EarlyEmpty'
    BY <1>1, <1>6, <1>7, <2>3, <2>4, Shapes DEF PersistInv, Guarded, EarlyEmpty, Early
  <2>6. ScratchOK'
    BY <1>1, <2>1, Shapes DEF PersistInv, PersistTyped, ScratchOK
  <2>7. QED
    BY <1>4, <1>5, <1>9, <2>2, <2>5, <2>6 DEF PersistInv
<1>11. CASE ~FlushEnds(p)
  <2>1. PICK f : f = [flush[p] EXCEPT !.tries = @ + 1]
    OBVIOUS
  <2>2. flush' = [flush EXCEPT ![p] = f] /\ UNCHANGED <<proc, scratch>>
    BY <1>11, <2>1 DEF Rename, RenameFails, PersistInv, PersistTyped
  <2>3. f \in Flushes /\ f.step = "rename" /\ f.last = flush[p].last
    BY <1>2, <2>1 DEF Flushes
  <2>4. PersistTyped'
    BY <1>1, <1>4, <1>6, <2>2, <2>3 DEF PersistInv, PersistTyped
  <2>5. \A q \in Procs : flush'[q] = IF q = p THEN f ELSE flush[q]
    BY <2>2 DEF PersistInv, PersistTyped
  <2>6. Guarded' /\ ScratchOK' /\ EarlyEmpty'
    BY <1>1, <1>2, <1>6, <1>7, <2>2, <2>3, <2>5 DEF PersistInv, Guarded, ScratchOK, EarlyEmpty, Early
  <2>7. QED
    BY <1>4, <1>5, <1>9, <2>4, <2>6 DEF PersistInv
<1>12. QED
  BY <1>10, <1>11

----------------------------------------------------------------------------
(* The theorems.                                                           *)

\* The invariant holds throughout, whatever crashes and power cuts come between.
LEMMA PersistInductive == PersistSpec => []PersistInv
<1>1. PersistInv /\ UNCHANGED persistVars => PersistInv'
  BY DEF PersistInv, PersistTyped, Guarded, ScratchOK, DiskOK, MemOK, LoadOK, RecOK, EarlyEmpty, persistVars
<1>2. PersistInv /\ [PersistNext]_persistVars => PersistInv'
  BY <1>1, ClaimInv, DieInv, LeaveInv, BootInv, ArchiveInv, PutInv, EndInv, RestInv, LearnInv, WriteInv,
     SyncInv, RenameInv
     DEF PersistNext
<1>3. QED
  BY PersistInitial, <1>2, PTL DEF PersistSpec

\* The cache file is never incomplete (persist_cache).
THEOREM FileWholeHolds == PersistSpec => []FileWhole
<1>1. PersistInv => FileWhole
  BY DEF PersistInv, DiskOK, FileWhole
<1>2. QED
  BY PersistInductive, <1>1, PTL

\* A running process holds the lock and every PID file it could write names it,
\* although its predecessor may still be on its way out and writing and clearing
\* may fail (write_pid, ProcessGuard::drop).
THEOREM OwnerNamedHolds == PersistSpec => []OwnerNamed
<1>1. PersistInv => OwnerNamed
  BY DEF PersistInv, Guarded, OwnerNamed
<1>2. QED
  BY PersistInductive, <1>1, PTL

\* No record is taken for current for longer than the upstream or the last stale
\* hit allowed and the flushes it went through took, through any number of saves,
\* restarts and clamped durations (DnsCacheEntry::read, emit).
THEOREM FreshIsFreshHolds == PersistSpec => []FreshIsFresh
<1>1. PersistInv => FreshIsFresh
  BY DEF PersistInv, MemOK, RecOK, FreshIsFresh
<1>2. QED
  BY PersistInductive, <1>1, PTL

\* A complete file is taken away only by a load that had condemned the one which
\* a flush has replaced since: a flush that fails or a process that dies in the
\* middle of one leaves what was saved (persist_cache, archive_cache_file).
THEOREM SavedSurvivesHolds == PersistSpec => SavedSurvives
<1> DEFINE Overtaken == \E p \in Procs : loading[p].step = "archive" /\ loading[p].overtaken
<1>1. ASSUME PersistInv, [PersistNext]_persistVars, disk # Blank, disk.state = "whole", disk' = Blank
      PROVE  Overtaken
  <2>1. CASE disk' = disk
    BY <1>1, <2>1
  <2>2. ASSUME NEW p \in Procs, LoadArchive(p) PROVE Overtaken
    BY <1>1, <2>2 DEF LoadArchive, PersistInv, LoadOK
  <2>3. ASSUME NEW p \in Procs, Rename(p) \/ RenameFails(p) PROVE disk' # Blank
    BY <1>1, <2>3, RecordAssumption DEF Rename, RenameFails, Spoiled, FlushIs, PersistInv, ScratchOK
  <2>4. CASE PowerCut \/ \E p \in Procs : Crash(p)
    BY <1>1, <2>4 DEF PowerCut, Crash, Torn, PersistInv, DiskOK
  <2>5. ASSUME Damage PROVE disk' # Blank
    <3>1. [disk EXCEPT !.state = "damaged"] \in CacheFiles
      BY <1>1 DEF CacheFiles, PersistInv, PersistTyped
    <3>2. QED
      BY <2>5, <3>1, RecordAssumption DEF Damage
  <2>6. ASSUME NEW p \in Procs, NEW k \in Names,
               \/ WriteShard(p, k) \/ LoadPut(p, k) \/ Push(p, k) \/ PurgeRecord(p, k)
               \/ \E ttl \in Lifetimes : Learn(p, k, ttl)
        PROVE  disk' = disk
    BY <2>6 DEF WriteShard, LoadPut, Push, PurgeRecord, Learn, fileVars
  <2>7. ASSUME NEW p \in Procs,
               \/ Claim(p) \/ WritePid(p) \/ Leave(p) \/ Switch(p) \/ LoadMissing(p) \/ LoadEnd(p)
               \/ FlushStart(p) \/ (\E t \in 0 .. clock : Sync(p, t)) \/ Terminate(p)
               \/ \E on \in BOOLEAN : Boot(p, on)
        PROVE  disk' = disk
    BY <2>7 DEF Claim, WritePid, Leave, Switch, LoadMissing, LoadEnd, FlushStart, Sync, Terminate, Boot, fileVars
  <2>8. CASE PersistTick
    BY <2>1, <2>8 DEF PersistTick, fileVars
  <2>9. QED
    BY <1>1, <2>1, <2>2, <2>3, <2>4, <2>5, <2>6, <2>7, <2>8 DEF PersistNext, persistVars
<1>2. QED
  BY PersistInductive, <1>1, PTL DEF PersistSpec, SavedSurvives

\* An answer learnt at run time is never replaced by an older one from the file,
\* although the load runs beside lookups, flushes and purges
\* (load_cache_only_missing).
THEOREM NewerKeptHolds == PersistSpec => NewerKept
<1>1. ASSUME PersistInv, [PersistNext]_persistVars, NEW p \in Procs, NEW k \in Names,
             mem[p][k] # NoRecord, mem'[p][k] # NoRecord
      PROVE  mem'[p][k].born >= mem[p][k].born
  <2>0. mem[p][k] \in CacheRecords /\ mem[p][k].born \in Nat /\ mem[p][k].born <= clock /\ clock \in Nat
    BY <1>1 DEF PersistInv, PersistTyped, MemOK, RecOK, CacheRecords
  <2>2. ASSUME NEW q \in Procs, NEW j \in Names, LoadPut(q, j)
        PROVE  mem'[p][k] = mem[p][k]
    <3>1. CASE q = p /\ j = k
      <4>1. loading[p].step = "put" /\ loading[p].recs[k] # NoRecord
        BY <2>2, <3>1 DEF LoadPut
      <4>2. loading[p].only
        BY <1>1, <4>1 DEF PersistInv, Guarded, EarlyEmpty
      <4>3. QED
        BY <1>1, <2>2, <3>1, <4>2 DEF LoadPut, Taken, PersistInv, PersistTyped
    <3>2. CASE ~(q = p /\ j = k)
      BY <1>1, <2>2, <3>2 DEF LoadPut, PersistInv, PersistTyped
    <3>3. QED
      BY <3>1, <3>2
  <2>3. ASSUME NEW q \in Procs, NEW j \in Names, NEW ttl \in Lifetimes, Learn(q, j, ttl)
        PROVE  mem'[p][k] = mem[p][k] \/ mem'[p][k].born = clock
    BY <1>1, <2>3 DEF Learn, PersistInv, PersistTyped
  <2>4. ASSUME NEW q \in Procs, NEW j \in Names, Push(q, j)
        PROVE  mem'[p][k].born = mem[p][k].born
    BY <1>1, <2>0, <2>4 DEF Push, PersistInv, PersistTyped, CacheRecords
  <2>5. ASSUME NEW q \in Procs, Leave(q) PROVE mem'[p][k] = mem[p][k]
    BY <1>1, <2>5 DEF Leave, PersistInv, PersistTyped, Empty
  <2>6. ASSUME NEW q \in Procs, NEW j \in Names, PurgeRecord(q, j) PROVE mem'[p][k] = mem[p][k]
    BY <1>1, <2>6 DEF PurgeRecord, PersistInv, PersistTyped
  <2>7. ASSUME PowerCut \/ \E q \in Procs : Crash(q) PROVE mem'[p][k] = mem[p][k]
    BY <1>1, <2>7 DEF PowerCut, Crash, Die, Empty
  <2>8. ASSUME NEW q \in Procs,
               \/ Claim(q) \/ WritePid(q) \/ Switch(q) \/ LoadMissing(q) \/ LoadArchive(q) \/ LoadEnd(q)
               \/ FlushStart(q) \/ (\E t \in 0 .. clock : Sync(q, t)) \/ Terminate(q)
               \/ (\E on \in BOOLEAN : Boot(q, on)) \/ (\E j \in Names : WriteShard(q, j))
               \/ Rename(q) \/ RenameFails(q)
        PROVE  mem' = mem
    BY <2>8 DEF Claim, WritePid, Boot, LoadMissing, LoadArchive, LoadEnd, Switch,
                FlushStart, Sync, WriteShard, Rename, RenameFails, Terminate, memVars
  <2>9. ASSUME Damage \/ PersistTick \/ UNCHANGED persistVars PROVE mem' = mem
    BY <2>9 DEF Damage, PersistTick, memVars, persistVars
  <2>10. mem'[p][k] = mem[p][k] \/ mem'[p][k].born = clock \/ mem'[p][k].born = mem[p][k].born
    BY <1>1, <2>2, <2>3, <2>4, <2>5, <2>6, <2>7, <2>8, <2>9 DEF PersistNext
  <2>11. QED
    BY <2>0, <2>10
<1>2. PersistInv /\ [PersistNext]_persistVars =>
        [\A p \in Procs, k \in Names :
           mem[p][k] # NoRecord /\ mem'[p][k] # NoRecord => mem'[p][k].born >= mem[p][k].born]_persistVars
  BY <1>1
<1>3. QED
  BY PersistInductive, <1>2, PTL DEF PersistSpec, NewerKept
=============================================================================
