------------------------------- MODULE LogFile ------------------------------
(***************************************************************************)
(* The log writer (infra/mapped_file.rs): a bounded queue in front of one  *)
(* consumer thread, and the file it appends to, rotates and prunes, while  *)
(* logrotate or an operator moves, truncates or replaces that file.        *)
(*                                                                         *)
(* A file is an inode with the lines it holds; lines are numbered in the   *)
(* order in which they are offered and each has size one; what a write cut *)
(* short leaves of a line has size one or none.                            *)
(***************************************************************************)
EXTENDS Integers, Sequences, FiniteSets

CONSTANTS
  LogQueueCap,  \* capacity of the queue (10240)
  LogSize,      \* log-size, in lines
  LogNum,       \* log-num: archives to keep; 0 counts as 1
  Marker,       \* LogMsg::Flush
  MaxLines,     \* bound on the lines offered
  MaxInodes,    \* bound on the files ever created
  MaxOutside    \* bound on restarts, short writes and what others do to the file

ASSUME LogAssumption ==
  /\ LogQueueCap \in Nat \ {0} /\ LogSize \in Nat \ {0} /\ LogNum \in Nat
  /\ MaxLines \in Nat /\ MaxInodes \in Nat /\ MaxOutside \in Nat
  /\ Marker \notin Nat          \* a marker is not a line

VARIABLES
  offered,   \* lines offered so far
  lq,        \* the queue
  lost,      \* lines counted as dropped or failed, or gone with a process
  copied,    \* lines others have copied away
  cut,       \* lines of which the system has written a part only (history)
  flusher,   \* flush_blocking: [at, before], before as history
  step,      \* where the consumer thread is in MappedFile::write
  line,      \* the line it is writing
  handle,    \* file: the open inode, its offset and whether it appends; or None
  len,       \* MappedFile::len
  probe,     \* disk_probe: [ino, len] or None
  present,   \* the inode at path; 0 if there is none
  archives,  \* the archives in the directory, the newest name first
  inode,     \* the lines and the size of every file created
  pruned,    \* files removed by a rotation
  outside    \* interventions so far

logVars == <<offered, lq, lost, copied, cut, flusher, step, line, handle, len, probe,
             present, archives, inode, pruned, outside>>
queueVars == <<offered, lq, lost, flusher>>
dirVars == <<present, archives, inode, pruned>>

None == [ino |-> 0, pos |-> 0, append |-> FALSE]
NoProbe == [ino |-> 0, len |-> 0]
Quiet == [at |-> "idle", before |-> {}]

LogInit ==
  /\ offered = 0 /\ lq = <<>> /\ lost = {} /\ copied = {} /\ cut = {}
  /\ flusher = Quiet
  /\ step = "recv" /\ line = 0
  /\ handle = None /\ len = 0 /\ probe = NoProbe
  /\ present = 0 /\ archives = <<>> /\ inode = <<>> /\ pruned = {}
  /\ outside = 0

----------------------------------------------------------------------------
(* The queue.                                                              *)

\* send_data: never blocks; what does not fit is counted and dropped.
Offer ==
  /\ offered < MaxLines
  /\ offered' = offered + 1
  /\ IF Len(lq) < LogQueueCap
     THEN lq' = Append(lq, offered + 1) /\ UNCHANGED lost
     ELSE lost' = lost \cup {offered + 1} /\ UNCHANGED lq
  /\ UNCHANGED <<copied, cut, flusher, step, line, handle, len, probe, dirVars, outside>>

\* Mutant: the marker overtakes the lines.
Overtaking(q) == <<Marker>> \o q

\* The queue is first in, first out for markers too.
Marked(q) == Append(q, Marker)

\* flush_blocking: the marker is put into the queue, tried again while it is
\* full.
FlushAsk ==
  /\ flusher.at = "idle" /\ Len(lq) < LogQueueCap
  /\ lq' = Marked(lq)
  /\ flusher' = [at |-> "waiting", before |-> 1 .. offered]
  /\ UNCHANGED <<offered, lost, copied, cut, step, line, handle, len, probe, dirVars, outside>>

\* It returns: after the ack, or because its time is over.
FlushReturn ==
  /\ flusher.at = "done" \/ (flusher.at = "waiting" /\ Marker \in {lq[i] : i \in 1 .. Len(lq)})
  /\ flusher' = [flusher EXCEPT !.at = "over"]
  /\ UNCHANGED <<offered, lq, lost, copied, cut, step, line, handle, len, probe, dirVars, outside>>

----------------------------------------------------------------------------
(* MappedFile.                                                             *)

SizeOf(i) == IF i = 0 THEN 0 ELSE inode[i].size
OnDisk == [ino |-> present, len |-> SizeOf(present)]   \* probe_disk; NoProbe if gone

\* disk_changed.
DiskChanged == handle # None /\ probe # NoProbe /\ probe # OnDisk

\* len() and is_full() for the given cache of handle, len and probe.
LenOf(h, n, changed) ==
  IF changed \/ (n = 0 /\ h = None) THEN SizeOf(present) ELSE n
IsFull == LenOf(handle, len, DiskChanged) >= LogSize

Goto(s) == step' = s

\* get_active_file, first part: a file that others have changed is given up
\* (reopen) and the size read again.
CheckDisk ==
  /\ step = "check"
  /\ IF DiskChanged THEN handle' = None /\ len' = 0 /\ probe' = NoProbe
                    ELSE UNCHANGED <<handle, len, probe>>
  /\ Goto(IF LenOf(handle', len', FALSE) >= LogSize THEN "backup" ELSE "open")
  /\ UNCHANGED <<queueVars, copied, cut, line, dirVars, outside>>

\* Any error ends the write; the consumer counts it.
Fail ==
  /\ lost' = lost \cup {line}
  /\ line' = 0
  /\ Goto("recv")

\* backup_files up to the rename, which may fail.
Backup ==
  /\ step = "backup"
  /\ handle' = None
  /\ \/ /\ present = 0
        /\ len' = 0 /\ probe' = NoProbe
        /\ Goto("open")
        /\ UNCHANGED <<lost, line, dirVars>>
     \/ /\ present # 0
        /\ archives' = <<present>> \o archives
        /\ present' = 0
        /\ Goto("prune")
        /\ UNCHANGED <<len, probe, lost, line, inode, pruned>>
     \/ /\ present # 0
        /\ Fail
        /\ UNCHANGED <<len, probe, dirVars>>
  /\ UNCHANGED <<offered, lq, flusher, copied, cut, outside>>

\* Mutant: one file too few is kept.
KeptOneFewer == LogNum - 1

Kept == IF LogNum = 0 THEN 1 ELSE LogNum

\* The rest of backup_files: of the files in the directory, newest first, those
\* beyond Kept are removed, where the system lets it.  The active file, should
\* somebody have created one, is first and counts.  A directory that cannot be
\* read ends the write.
Prune ==
  /\ step = "prune"
  /\ LET room == Kept - (IF present = 0 THEN 0 ELSE 1)
     IN  \/ /\ archives' = [j \in {i \in 1 .. Len(archives) : i <= room} |-> archives[j]]
            /\ pruned' = pruned \cup {archives[j] : j \in {i \in 1 .. Len(archives) : i > room}}
            /\ Goto("open") /\ UNCHANGED <<lost, line>>
         \/ /\ Len(archives) > room
            /\ Goto("open") /\ UNCHANGED <<archives, pruned, lost, line>>
         \/ Fail /\ UNCHANGED <<archives, pruned>>
  /\ UNCHANGED <<offered, lq, flusher, copied, cut, handle, len, probe, present, inode, outside>>

NewInode == [lines |-> {}, size |-> 0]

\* A file that exists and is full by what is known of it is truncated.
Truncates == LenOf(handle, len, FALSE) >= LogSize

\* The rest of get_active_file: open, which may fail, and the fingerprint is
\* taken afterwards, by path.
OpenFile ==
  /\ step = "open"
  /\ IF handle # None THEN Goto("write") /\ UNCHANGED <<lost, line, handle, len, present, inode>>
     ELSE \/ /\ present # 0
             /\ inode' = IF Truncates THEN [inode EXCEPT ![present] = NewInode] ELSE inode
             /\ handle' = [ino |-> present, pos |-> 0, append |-> ~Truncates]
             /\ len' = inode'[present].size
             /\ Goto("probe") /\ UNCHANGED <<lost, line, present>>
          \/ /\ present = 0 /\ Len(inode) < MaxInodes
             /\ inode' = Append(inode, NewInode)
             /\ present' = Len(inode')
             /\ handle' = [ino |-> present', pos |-> 0, append |-> FALSE]
             /\ len' = 0
             /\ Goto("probe") /\ UNCHANGED <<lost, line>>
          \/ Fail /\ UNCHANGED <<handle, len, present, inode>>
  /\ UNCHANGED <<offered, lq, flusher, copied, cut, probe, archives, pruned, outside>>

TakeProbe ==
  /\ step = "probe"
  /\ probe' = OnDisk
  /\ Goto("write")
  /\ UNCHANGED <<queueVars, copied, cut, line, handle, len, dirVars, outside>>

\* MappedFile::write, from the write on: what the one write call takes lands at
\* the offset, length and fingerprint follow, and a full file is closed.  The
\* consumer counts errors only, so nobody notices a write cut short.
Land(n, whole) ==
  /\ step = "write"
  /\ LET off == IF handle.append THEN inode[handle.ino].size ELSE handle.pos
         end == IF off + n > inode[handle.ino].size THEN off + n ELSE inode[handle.ino].size
     IN  inode' = [inode EXCEPT ![handle.ino] =
                     [lines |-> IF whole THEN @.lines \cup {line} ELSE @.lines, size |-> end]]
  /\ len' = len + n
  /\ LET disk == [ino |-> present, len |-> IF present = 0 THEN 0 ELSE inode'[present].size]
     IN  /\ probe' = IF probe = NoProbe THEN disk ELSE [probe EXCEPT !.len = @ + n]
         /\ handle' = IF len' >= LogSize /\ (probe' \in {NoProbe, disk} \/ disk.len >= LogSize)
                      THEN None
                      ELSE [handle EXCEPT !.pos = IF handle.append THEN 0 ELSE @ + n]
  /\ cut' = IF whole THEN cut ELSE cut \cup {line}
  /\ line' = 0
  /\ Goto("recv")
  /\ UNCHANGED <<queueVars, copied, present, archives, pruned>>

LandWhole == Land(1, TRUE) /\ UNCHANGED outside

LandShort ==
  /\ outside < MaxOutside
  /\ outside' = outside + 1
  /\ \E n \in {0, 1} : Land(n, FALSE)

WriteFails ==
  /\ step = "write"
  /\ Fail
  /\ UNCHANGED <<offered, lq, flusher, copied, cut, handle, len, probe, dirVars, outside>>

----------------------------------------------------------------------------
(* The consumer thread.                                                    *)

TakeLine ==
  /\ step = "recv" /\ lq # <<>> /\ Head(lq) # Marker
  /\ line' = Head(lq) /\ lq' = Tail(lq)
  /\ Goto("check")
  /\ UNCHANGED <<offered, lost, copied, cut, flusher, handle, len, probe, dirVars, outside>>

\* The marker: flush, which closes a full file, and the ack, if somebody still
\* waits for it.
TakeMarker ==
  /\ step = "recv" /\ lq # <<>> /\ Head(lq) = Marker
  /\ lq' = Tail(lq)
  /\ handle' = IF handle # None /\ LenOf(None, len, FALSE) >= LogSize THEN None ELSE handle
  /\ flusher' = IF flusher.at = "waiting" THEN [flusher EXCEPT !.at = "done"] ELSE flusher
  /\ UNCHANGED <<offered, lost, copied, cut, step, line, len, probe, dirVars, outside>>

\* The process dies with what is queued, and the next one starts from the files.
Restart ==
  /\ outside < MaxOutside
  /\ outside' = outside + 1
  /\ lost' = lost \cup {lq[i] : i \in {j \in 1 .. Len(lq) : lq[j] # Marker}} \cup ({line} \ {0})
  /\ lq' = <<>> /\ line' = 0 /\ flusher' = Quiet
  /\ Goto("recv")
  /\ handle' = None /\ len' = 0 /\ probe' = NoProbe
  /\ UNCHANGED <<offered, copied, cut, dirVars>>

----------------------------------------------------------------------------
(* logrotate.                                                              *)

Intervene ==
  /\ outside < MaxOutside
  /\ outside' = outside + 1
  /\ UNCHANGED <<queueVars, cut, step, line, handle, len, probe>>

\* The file is renamed out of the directory.
MoveAway ==
  /\ Intervene
  /\ present # 0 /\ present' = 0
  /\ UNCHANGED <<copied, archives, inode, pruned>>

\* create: an empty file is put in its place.
CreateFile ==
  /\ Intervene
  /\ present = 0 /\ Len(inode) < MaxInodes
  /\ inode' = Append(inode, NewInode)
  /\ present' = Len(inode')
  /\ UNCHANGED <<copied, archives, pruned>>

\* copytruncate: copied away and emptied in place.
CopyTruncate ==
  /\ Intervene
  /\ present # 0
  /\ copied' = copied \cup inode[present].lines
  /\ inode' = [inode EXCEPT ![present] = NewInode]
  /\ UNCHANGED <<present, archives, pruned>>

LogNext ==
  \/ Offer \/ FlushAsk \/ FlushReturn
  \/ TakeLine \/ TakeMarker
  \/ CheckDisk \/ Backup \/ Prune \/ OpenFile \/ TakeProbe \/ LandWhole \/ LandShort \/ WriteFails
  \/ Restart \/ MoveAway \/ CreateFile \/ CopyTruncate

LogSpec == LogInit /\ [][LogNext]_logVars

----------------------------------------------------------------------------
(* Properties.                                                             *)

Queued == {lq[i] : i \in 1 .. Len(lq)} \ {Marker}
Stored == UNION {inode[i].lines : i \in (1 .. Len(inode)) \ pruned}
Superseded == UNION {inode[i].lines : i \in {j \in pruned : Len(inode) - j >= LogNum}}

\* No line disappears unnoticed but one whose write the system has cut short: it
\* is queued, being written, counted as dropped or failed, or in a file, whatever
\* others do to the file between two steps of a rotation, and a file is pruned
\* only behind log-num newer ones.  The active file counts as one of them should
\* somebody have created it anew during the rotation, although the comment in
\* backup_files speaks of log-num archives.
NoLineLost ==
  1 .. offered \subseteq Queued \cup {line} \cup lost \cup copied \cup cut \cup Stored \cup Superseded

\* A flush that succeeds has every line offered before it out of the queue and
\* written or counted (flush_blocking waits for its marker).
FlushHonest ==
  flusher.at = "done" => flusher.before \cap (Queued \cup {line}) = {}
=============================================================================
