--------------------------- MODULE ServicesProofs ---------------------------
(***************************************************************************)
(* Proofs about the log writer (LogFile), for every queue capacity, file   *)
(* size and number of archives: whatever others do to the file between two *)
(* steps of the consumer thread, no line disappears unnoticed, and a flush *)
(* that succeeds has its lines out of the queue.  About the clock of the   *)
(* prefetch task (PrefetchClock), for every set of keys, callers and TTLs: *)
(* however calls of notify_after interleave, no entry that a scan has      *)
(* still to look at is left without a wake-up.  And that the services of   *)
(* MCServices are behaviours of their own modules where they run together. *)
(***************************************************************************)
EXTENDS MCServices, NaturalsInduction, WellFoundedInduction, FiniteSetTheorems,
        SequenceTheorems, TLAPS

----------------------------------------------------------------------------
(* The log file.                                                           *)

Steps == {"recv", "check", "backup", "prune", "open", "probe", "write"}

Inodes == [lines : SUBSET Nat, size : Nat]
Handles == [ino : Nat, pos : Nat, append : BOOLEAN]

\* What the variables hold; the inode at path exists.
LogTypeOK ==
  /\ offered \in Nat /\ line \in Nat /\ len \in Nat /\ outside \in Nat
  /\ lq \in Seq(Nat \cup {Marker})
  /\ flusher \in [at : {"idle", "waiting", "done", "over"}, before : SUBSET (1 .. offered)]
  /\ step \in Steps
  /\ inode \in Seq(Inodes)
  /\ present \in 0 .. Len(inode)
  /\ handle \in Handles
  /\ probe \in [ino : Nat, len : Nat]
  /\ archives \in Seq(Nat)
  /\ pruned \subseteq Nat

\* The consumer holds no line between two writes, and a file that exists from
\* the open on; a rotation has closed it.
WriterHolds ==
  /\ step = "recv" => line = 0
  /\ step \in {"probe", "write"} => handle # None
  /\ handle # None => handle.ino \in 1 .. Len(inode)
  /\ step = "prune" => handle = None

\* The j-th archive is older than j files: the archives before it and the file
\* at path, if there is one.
Younger == IF present = 0 THEN Len(inode) + 1 ELSE present
ArchivesAged == \A j \in 1 .. Len(archives) : archives[j] + j <= Younger

\* A pruned file is behind log-num newer ones.
PrunedAged == \A j \in pruned : Len(inode) - j >= LogNum

\* What the open finds at path: nothing, a file somebody has just created, or
\* one that is not full, so that a truncation removes no line.
Known == LenOf(None, len, FALSE)
Harmless ==
  present # 0 =>
    /\ step = "prune" => inode[present] = NewInode
    /\ step = "open" /\ handle = None =>
         inode[present] = NewInode \/ Known < LogSize

\* The line is somewhere.
Found(n) ==
  \/ n = line \/ n \in lost \/ n \in copied \/ n \in cut
  \/ \E i \in 1 .. Len(lq) : lq[i] = n
  \/ \E i \in 1 .. Len(inode) : n \in inode[i].lines

\* While a flush waits, no line offered before it is behind its marker, and
\* before it there is no marker in the queue.
MarkerLast ==
  /\ flusher.at = "idle" => \A i \in 1 .. Len(lq) : lq[i] # Marker
  /\ flusher.at = "waiting" =>
       \A i, j \in 1 .. Len(lq) : i < j /\ lq[i] = Marker => lq[j] \notin flusher.before

Accounted == \A n \in 1 .. offered : Found(n)

\* The inductive invariant.
LogInv ==
  /\ LogTypeOK /\ WriterHolds /\ ArchivesAged /\ PrunedAged /\ Harmless
  /\ Accounted /\ MarkerLast /\ FlushHonest

----------------------------------------------------------------------------
(* Files.                                                                  *)

\* Creating a file leaves the others alone.
LEMMA Created ==
  ASSUME NEW s \in Seq(Inodes)
  PROVE  /\ Append(s, NewInode) \in Seq(Inodes)
         /\ Len(Append(s, NewInode)) = Len(s) + 1
         /\ \A i \in 1 .. Len(s) : Append(s, NewInode)[i] = s[i]
         /\ Append(s, NewInode)[Len(s) + 1] = NewInode
<1>1. NewInode \in Inodes
  BY DEF NewInode, Inodes
<1>2. QED
  BY <1>1

\* Writing to a file leaves the others alone.
LEMMA Written ==
  ASSUME NEW s \in Seq(Inodes), NEW p \in 1 .. Len(s), NEW f \in Inodes
  PROVE  /\ [s EXCEPT ![p] = f] \in Seq(Inodes)
         /\ Len([s EXCEPT ![p] = f]) = Len(s)
         /\ \A i \in 1 .. Len(s) : [s EXCEPT ![p] = f][i] = IF i = p THEN f ELSE s[i]
BY ExceptSeq

\* A closed handle is a handle.
LEMMA NoneTyped == None \in Handles /\ NoProbe \in [ino : Nat, len : Nat]
<1>1. None \in Handles
  BY Zenon, 0 \in Nat DEF None, Handles
<1>2. NoProbe \in [ino : Nat, len : Nat]
  BY DEF NoProbe
<1>3. QED
  BY <1>1, <1>2

\* The size known of a file is a number.
LEMMA SizeNat ==
  ASSUME LogTypeOK
  PROVE  SizeOf(present) \in Nat
<1>1. present # 0 => inode[present] \in Inodes
  BY DEF LogTypeOK
<1>2. QED
  BY <1>1 DEF SizeOf, Inodes

\* The files together hold what the pruned ones and the others do.
LEMMA FilesHold ==
  ASSUME LogInv
  PROVE  \A i \in 1 .. Len(inode) : inode[i].lines \subseteq Stored \cup Superseded
BY DEF LogInv, PrunedAged, Stored, Superseded

\* The log writer starts with nothing to lose.
LEMMA LogInitial == LogInit => LogInv
<1> SUFFICES ASSUME LogInit PROVE LogInv
  OBVIOUS
<1>1. LogTypeOK
  BY NoneTyped DEF LogInit, LogTypeOK, Steps, Quiet
<1>2. WriterHolds /\ ArchivesAged /\ PrunedAged /\ Harmless /\ Accounted
  BY DEF LogInit, WriterHolds, ArchivesAged, PrunedAged, Harmless, Accounted
<1>3. MarkerLast /\ FlushHonest
  BY DEF LogInit, MarkerLast, FlushHonest, Quiet
<1>4. QED
  BY <1>1, <1>2, <1>3 DEF LogInv

----------------------------------------------------------------------------
(* The queue.                                                              *)

\* What a step leaves alone stays true of the files.
LEMMA FilesKept ==
  ASSUME LogInv, UNCHANGED <<step, handle, len, dirVars>>
  PROVE  ArchivesAged' /\ PrunedAged' /\ Harmless'
<1>1. Known' = Known
  BY DEF Known, LenOf, SizeOf, dirVars
<1>2. QED
  BY <1>1 DEF LogInv, ArchivesAged, PrunedAged, Harmless, Younger, dirVars

\* A line is queued or counted.
LEMMA OfferInv ==
  ASSUME LogInv, Offer
  PROVE  LogInv'
<1>1. /\ offered' = offered + 1 /\ offered \in Nat /\ lq \in Seq(Nat \cup {Marker})
      /\ flusher' = flusher /\ line' = line /\ copied' = copied /\ cut' = cut /\ inode' = inode
      /\ \/ lq' = Append(lq, offered + 1) /\ lost' = lost
         \/ lq' = lq /\ lost' = lost \cup {offered + 1}
  BY DEF Offer, LogInv, LogTypeOK, dirVars
<1>2. lq' \in Seq(Nat \cup {Marker})
  BY <1>1
<1>3. LogTypeOK'
  <2>1. flusher.before \subseteq 1 .. offered'
    BY <1>1 DEF LogInv, LogTypeOK
  <2>2. flusher' \in [at : {"idle", "waiting", "done", "over"}, before : SUBSET (1 .. offered')]
    BY <1>1, <2>1 DEF LogInv, LogTypeOK
  <2>3. QED
    BY <1>1, <1>2, <2>2 DEF Offer, LogInv, LogTypeOK, dirVars
<1>4. WriterHolds' /\ ArchivesAged' /\ PrunedAged' /\ Harmless'
  BY FilesKept DEF Offer, LogInv, WriterHolds, dirVars
<1>5. /\ \A i \in 1 .. Len(lq) : i \in 1 .. Len(lq') /\ lq'[i] = lq[i]
      /\ \A i \in 1 .. Len(lq') : i \in 1 .. Len(lq) \/ (i = Len(lq) + 1 /\ lq'[i] = offered + 1)
      /\ offered + 1 \in lost' \/ \E i \in 1 .. Len(lq') : lq'[i] = offered + 1
  BY <1>1
<1>6. Accounted'
  <2>1. SUFFICES ASSUME NEW n \in 1 .. offered' PROVE Found(n)'
    BY DEF Accounted
  <2>2. CASE n = offered + 1
    BY <1>5, <2>2 DEF Found
  <2>3. CASE n \in 1 .. offered
    <3>1. Found(n)
      BY <2>3 DEF LogInv, Accounted
    <3>2. QED
      BY <1>1, <1>5, <3>1 DEF Found
  <2>4. QED
    BY <1>1, <2>2, <2>3
<1>7. offered + 1 # Marker /\ offered + 1 \notin flusher.before
  BY <1>1, LogAssumption DEF LogInv, LogTypeOK
<1>8. MarkerLast'
  BY <1>1, <1>5, <1>7 DEF LogInv, MarkerLast
<1>9. FlushHonest'
  BY <1>1, <1>5, <1>7 DEF LogInv, FlushHonest, Queued
<1>10. QED
  BY <1>3, <1>4, <1>6, <1>8, <1>9 DEF LogInv

\* The marker goes behind the lines.
LEMMA FlushAskInv ==
  ASSUME LogInv, FlushAsk
  PROVE  LogInv'
<1>1. /\ flusher.at = "idle" /\ lq \in Seq(Nat \cup {Marker}) /\ lq' = Append(lq, Marker)
      /\ flusher' = [at |-> "waiting", before |-> 1 .. offered] /\ offered \in Nat
      /\ UNCHANGED <<offered, lost, copied, cut, step, line, handle, len, probe, dirVars, outside>>
  BY DEF FlushAsk, Marked, LogInv, LogTypeOK
<1>2. /\ lq' \in Seq(Nat \cup {Marker})
      /\ \A i \in 1 .. Len(lq) : i \in 1 .. Len(lq') /\ lq'[i] = lq[i]
      /\ \A i \in 1 .. Len(lq') : i \in 1 .. Len(lq) \/ i = Len(lq')
  BY <1>1
<1>3. LogTypeOK'
  BY <1>1, <1>2 DEF LogInv, LogTypeOK, dirVars
<1>4. WriterHolds' /\ ArchivesAged' /\ PrunedAged' /\ Harmless'
  BY <1>1, FilesKept DEF LogInv, WriterHolds, dirVars
<1>5. Accounted'
  BY <1>1, <1>2 DEF LogInv, Accounted, Found, dirVars
<1>6. MarkerLast' /\ FlushHonest'
  <2>1. \A i \in 1 .. Len(lq) : lq[i] # Marker
    BY <1>1 DEF LogInv, MarkerLast
  <2>2. \A i, j \in 1 .. Len(lq') : i < j => lq'[i] # Marker
    BY <1>1, <1>2, <2>1
  <2>3. QED
    BY <1>1, <2>2 DEF MarkerLast, FlushHonest
<1>7. QED
  BY <1>3, <1>4, <1>5, <1>6 DEF LogInv

\* The flush returns; the queue is not touched.
LEMMA FlushReturnInv ==
  ASSUME LogInv, FlushReturn
  PROVE  LogInv'
<1>1. /\ flusher'.at = "over" /\ flusher'.before = flusher.before
      /\ flusher' \in [at : {"idle", "waiting", "done", "over"}, before : SUBSET (1 .. offered)]
      /\ UNCHANGED <<offered, lq, lost, copied, cut, step, line, handle, len, probe, dirVars, outside>>
  BY DEF FlushReturn, LogInv, LogTypeOK
<1>2. LogTypeOK'
  BY <1>1 DEF LogInv, LogTypeOK, dirVars
<1>3. WriterHolds' /\ ArchivesAged' /\ PrunedAged' /\ Harmless'
  BY <1>1, FilesKept DEF LogInv, WriterHolds, dirVars
<1>4. Accounted' /\ MarkerLast' /\ FlushHonest'
  BY <1>1 DEF LogInv, Accounted, Found, MarkerLast, FlushHonest, dirVars
<1>5. QED
  BY <1>2, <1>3, <1>4 DEF LogInv

----------------------------------------------------------------------------
(* The consumer thread.                                                    *)

\* A step that leaves the queue alone, and takes up no line, leaves the flush
\* alone.
LEMMA FlushKept ==
  ASSUME LogInv, UNCHANGED <<offered, lq, flusher>>, line' \in {line, 0}
  PROVE  MarkerLast' /\ FlushHonest'
<1>1. 0 \notin flusher.before
  BY DEF LogInv, LogTypeOK
<1>2. QED
  BY <1>1 DEF LogInv, MarkerLast, FlushHonest, Queued

\* The line at the head of the queue becomes the line being written.
LEMMA TakeLineInv ==
  ASSUME LogInv, TakeLine
  PROVE  LogInv'
<1>1. /\ step = "recv" /\ step' = "check" /\ line = 0 /\ line' = Head(lq) /\ lq' = Tail(lq)
      /\ lq # <<>> /\ Head(lq) # Marker /\ lq \in Seq(Nat \cup {Marker}) /\ offered \in Nat
      /\ UNCHANGED <<offered, lost, copied, cut, flusher, handle, len, probe, dirVars, outside>>
  BY DEF TakeLine, Goto, LogInv, LogTypeOK, WriterHolds
<1>2. /\ Len(lq) \in Nat \ {0} /\ line' = lq[1] /\ line' \in Nat
      /\ lq' \in Seq(Nat \cup {Marker}) /\ Len(lq') = Len(lq) - 1
      /\ \A i \in 1 .. Len(lq') : lq'[i] = lq[i + 1]
  BY <1>1
<1>3. LogTypeOK'
  BY <1>1, <1>2 DEF LogInv, LogTypeOK, Steps, dirVars
<1>4. WriterHolds' /\ ArchivesAged' /\ PrunedAged' /\ Harmless'
  BY <1>1 DEF LogInv, WriterHolds, ArchivesAged, PrunedAged, Harmless, Younger, dirVars
<1>5. Accounted'
  <2>1. SUFFICES ASSUME NEW n \in 1 .. offered PROVE Found(n)'
    BY <1>1 DEF Accounted
  <2>2. Found(n) /\ n # line
    BY <1>1, <2>1 DEF LogInv, Accounted
  <2>3. ASSUME NEW i \in 1 .. Len(lq), lq[i] = n
        PROVE  n = line' \/ \E j \in 1 .. Len(lq') : lq'[j] = n
    <3>1. CASE i = 1
      BY <1>2, <2>3, <3>1
    <3>2. CASE i # 1
      <4>1. i - 1 \in 1 .. Len(lq') /\ (i - 1) + 1 = i
        BY <1>2, <3>2
      <4>2. QED
        BY <1>2, <2>3, <4>1
    <3>3. QED
      BY <3>1, <3>2
  <2>4. QED
    BY <1>1, <2>2, <2>3 DEF Found, dirVars
<1>6. MarkerLast'
  <2>1. \A i \in 1 .. Len(lq') : i + 1 \in 1 .. Len(lq)
    BY <1>2
  <2>2. ASSUME NEW i \in 1 .. Len(lq'), NEW j \in 1 .. Len(lq'), i < j, lq'[i] = Marker,
               flusher.at = "waiting"
        PROVE  lq'[j] \notin flusher.before
    <3>1. i + 1 < j + 1 /\ lq[i + 1] = Marker /\ lq'[j] = lq[j + 1]
      BY <1>2, <2>2
    <3>2. QED
      BY <2>1, <2>2, <3>1 DEF LogInv, MarkerLast
  <2>3. QED
    BY <1>1, <1>2, <2>1, <2>2 DEF LogInv, MarkerLast
<1>7. FlushHonest'
  <2>1. Queued' \cup {line'} \subseteq Queued
    <3>1. \A i \in 1 .. Len(lq') : i + 1 \in 1 .. Len(lq)
      BY <1>2
    <3>2. Queued' \subseteq Queued
      BY <1>2, <3>1 DEF Queued
    <3>3. line' \in Queued
      BY <1>1, <1>2 DEF Queued
    <3>4. QED
      BY <3>2, <3>3
  <2>2. QED
    BY <1>1, <2>1 DEF LogInv, FlushHonest
<1>8. QED
  BY <1>3, <1>4, <1>5, <1>6, <1>7 DEF LogInv

\* The marker has reached the head of the queue.
LEMMA TakeMarkerInv ==
  ASSUME LogInv, TakeMarker
  PROVE  LogInv'
<1>1. /\ step = "recv" /\ step' = step /\ line = 0 /\ line' = line /\ lq' = Tail(lq)
      /\ lq # <<>> /\ Head(lq) = Marker /\ lq \in Seq(Nat \cup {Marker}) /\ offered \in Nat
      /\ handle' \in {handle, None}
      /\ flusher' = IF flusher.at = "waiting" THEN [flusher EXCEPT !.at = "done"] ELSE flusher
      /\ UNCHANGED <<offered, lost, copied, cut, step, line, len, probe, dirVars, outside>>
  BY DEF TakeMarker, LogInv, LogTypeOK, WriterHolds
<1>2. /\ Len(lq) \in Nat \ {0} /\ lq[1] = Marker
      /\ lq' \in Seq(Nat \cup {Marker}) /\ Len(lq') = Len(lq) - 1
      /\ \A i \in 1 .. Len(lq') : lq'[i] = lq[i + 1]
  BY <1>1
<1>3. LogTypeOK'
  <2>1. flusher' \in [at : {"idle", "waiting", "done", "over"}, before : SUBSET (1 .. offered)]
    BY <1>1 DEF LogInv, LogTypeOK
  <2>2. handle' \in Handles
    BY <1>1, NoneTyped DEF LogInv, LogTypeOK
  <2>3. QED
    BY <1>1, <1>2, <2>1, <2>2 DEF LogInv, LogTypeOK, dirVars
<1>4. WriterHolds' /\ ArchivesAged' /\ PrunedAged' /\ Harmless'
  BY <1>1 DEF LogInv, WriterHolds, ArchivesAged, PrunedAged, Harmless, Younger, dirVars
<1>5. \A i \in 1 .. Len(lq) : lq[i] # Marker => \E j \in 1 .. Len(lq') : lq'[j] = lq[i]
  <2>1. SUFFICES ASSUME NEW i \in 1 .. Len(lq), lq[i] # Marker
                 PROVE  \E j \in 1 .. Len(lq') : lq'[j] = lq[i]
    OBVIOUS
  <2>2. i - 1 \in 1 .. Len(lq') /\ (i - 1) + 1 = i
    BY <1>2, <2>1
  <2>3. QED
    BY <1>2, <2>2
<1>6. Accounted'
  <2>1. \A n \in 1 .. offered : n # Marker
    BY LogAssumption
  <2>2. SUFFICES ASSUME NEW n \in 1 .. offered PROVE Found(n)'
    BY <1>1 DEF Accounted
  <2>3. Found(n)
    BY DEF LogInv, Accounted
  <2>4. QED
    BY <1>1, <1>5, <2>1, <2>3 DEF Found, dirVars
<1>7. \A i \in 1 .. Len(lq') : i + 1 \in 1 .. Len(lq) /\ 1 < i + 1 /\ 1 \in 1 .. Len(lq)
  BY <1>2
<1>8. CASE flusher.at = "waiting"
  <2>1. flusher' = [at |-> "done", before |-> flusher.before]
    BY <1>1, <1>8 DEF LogInv, LogTypeOK
  <2>2. \A i \in 1 .. Len(lq') : lq'[i] \notin flusher.before
    BY <1>2, <1>7, <1>8 DEF LogInv, MarkerLast
  <2>3. line' \notin flusher.before
    BY <1>1 DEF LogInv, LogTypeOK
  <2>4. MarkerLast' /\ FlushHonest'
    BY <2>1, <2>2, <2>3 DEF MarkerLast, FlushHonest, Queued
  <2>5. QED
    BY <1>3, <1>4, <1>6, <2>4 DEF LogInv
<1>9. CASE flusher.at # "waiting"
  <2>1. MarkerLast'
    BY <1>1, <1>2, <1>7, <1>9 DEF LogInv, MarkerLast
  <2>2. FlushHonest'
    BY <1>1, <1>2, <1>7, <1>9 DEF LogInv, FlushHonest, Queued
  <2>3. QED
    BY <1>3, <1>4, <1>6, <2>1, <2>2 DEF LogInv
<1>10. QED
  BY <1>8, <1>9

\* An open follows only if the file is not full by what is known of it.
LEMMA CheckDiskInv ==
  ASSUME LogInv, CheckDisk
  PROVE  LogInv'
<1>1. /\ step = "check"
      /\ \/ handle' = None /\ len' = 0 /\ probe' = NoProbe
         \/ UNCHANGED <<handle, len, probe>>
      /\ step' = IF LenOf(handle', len', FALSE) >= LogSize THEN "backup" ELSE "open"
      /\ UNCHANGED <<offered, lq, lost, flusher, copied, cut, line, present, archives, inode, pruned, outside>>
  BY DEF CheckDisk, Goto, queueVars, dirVars
<1>2. LogTypeOK'
  BY <1>1, NoneTyped DEF LogInv, LogTypeOK, Steps
<1>3. WriterHolds' /\ ArchivesAged' /\ PrunedAged'
  BY <1>1 DEF LogInv, WriterHolds, ArchivesAged, PrunedAged, Younger
<1>4. Harmless'
  <2>1. ASSUME handle' = None, step' = "open"
        PROVE  Known' < LogSize
    <3>1. LenOf(handle', len', FALSE) = Known'
      BY <1>1, <2>1 DEF Known, LenOf, SizeOf
    <3>2. Known' \in Nat
      <4>1. SizeOf(present) \in Nat /\ SizeOf(present)' = SizeOf(present) /\ len' \in Nat
        BY <1>1, <1>2, SizeNat DEF LogInv, LogTypeOK, SizeOf
      <4>2. QED
        BY <4>1 DEF Known, LenOf
    <3>3. ~ (Known' >= LogSize)
      BY <1>1, <2>1, <3>1, Zenon
    <3>4. QED
      BY <3>2, <3>3, LogAssumption
  <2>2. QED
    BY <1>1, <2>1 DEF Harmless
<1>5. Accounted'
  BY <1>1 DEF LogInv, Accounted, Found
<1>6. QED
  BY <1>1, <1>2, <1>3, <1>4, <1>5, FlushKept DEF LogInv

\* A write that fails leaves the line counted, whatever else it has changed of
\* the handle.
LEMMA FailInv ==
  ASSUME LogInv, Fail, handle' \in {handle, None},
         UNCHANGED <<offered, lq, flusher, copied, cut, len, probe, dirVars, outside>>
  PROVE  LogInv'
<1>1. /\ lost' = lost \cup {line} /\ line' = 0 /\ step' = "recv"
      /\ UNCHANGED <<offered, lq, flusher, copied, cut, len, probe, present, archives, inode, pruned, outside>>
  BY DEF Fail, Goto, dirVars
<1>2. LogTypeOK'
  BY <1>1, NoneTyped DEF LogInv, LogTypeOK, Steps
<1>3. WriterHolds' /\ ArchivesAged' /\ PrunedAged' /\ Harmless'
  BY <1>1 DEF LogInv, WriterHolds, ArchivesAged, PrunedAged, Harmless, Younger
<1>4. Accounted'
  BY <1>1 DEF LogInv, Accounted, Found
<1>5. QED
  BY <1>1, <1>2, <1>3, <1>4, FlushKept DEF LogInv

\* The file at path is older than what is created later, and younger than the
\* archives so far.
LEMMA RenameInv ==
  ASSUME LogInv, handle' = None, present # 0, archives' = <<present>> \o archives, present' = 0,
         step' = "prune",
         UNCHANGED <<offered, lq, flusher, copied, cut, outside, len, probe, lost, line, inode, pruned>>
  PROVE  LogInv'
<1>1. /\ archives \in Seq(Nat) /\ present \in 1 .. Len(inode) /\ Len(inode) \in Nat
      /\ \A j \in 1 .. Len(archives) : archives[j] + j <= present
  BY DEF LogInv, LogTypeOK, ArchivesAged, Younger
<1>2. /\ archives' \in Seq(Nat) /\ Len(archives') = Len(archives) + 1
      /\ \A j \in 1 .. Len(archives') : archives'[j] = IF j = 1 THEN present ELSE archives[j - 1]
  BY <1>1
<1>3. LogTypeOK'
  BY <1>1, <1>2, NoneTyped DEF LogInv, LogTypeOK, Steps
<1>4. ArchivesAged'
  <2>1. SUFFICES ASSUME NEW j \in 1 .. Len(archives') PROVE archives'[j] + j <= Len(inode) + 1
    BY DEF ArchivesAged, Younger
  <2>2. CASE j = 1
    BY <1>1, <1>2, <2>2
  <2>3. CASE j # 1
    <3>1. j - 1 \in 1 .. Len(archives) /\ j \in Nat
      BY <1>1, <1>2, <2>3
    <3>2. archives[j - 1] \in Nat /\ archives[j - 1] + (j - 1) <= present
      BY <1>1, <3>1
    <3>3. archives'[j] = archives[j - 1]
      BY <1>2, <2>3
    <3>4. QED
      BY <1>1, <3>1, <3>2, <3>3
  <2>4. QED
    BY <2>2, <2>3
<1>5. WriterHolds' /\ PrunedAged' /\ Harmless'
  BY DEF LogInv, WriterHolds, PrunedAged, Harmless
<1>6. Accounted'
  BY DEF LogInv, Accounted, Found
<1>7. QED
  BY <1>3, <1>4, <1>5, <1>6, FlushKept DEF LogInv

\* The rename of a rotation, or its failure.
LEMMA BackupInv ==
  ASSUME LogInv, Backup
  PROVE  LogInv'
<1>1. CASE /\ present = 0 /\ handle' = None /\ len' = 0 /\ probe' = NoProbe /\ step' = "open"
           /\ UNCHANGED <<offered, lq, flusher, copied, cut, outside, lost, line, dirVars>>
  <2>1. LogTypeOK'
    BY <1>1, NoneTyped DEF LogInv, LogTypeOK, Steps, dirVars
  <2>2. WriterHolds' /\ ArchivesAged' /\ PrunedAged' /\ Harmless'
    BY <1>1 DEF LogInv, WriterHolds, ArchivesAged, PrunedAged, Harmless, Younger, dirVars
  <2>3. Accounted'
    BY <1>1 DEF LogInv, Accounted, Found, dirVars
  <2>4. QED
    BY <1>1, <2>1, <2>2, <2>3, FlushKept DEF LogInv
<1>2. CASE /\ handle' = None /\ present # 0 /\ archives' = <<present>> \o archives /\ present' = 0
           /\ step' = "prune"
           /\ UNCHANGED <<offered, lq, flusher, copied, cut, outside, len, probe, lost, line, inode, pruned>>
  BY <1>2, RenameInv
<1>3. CASE /\ handle' = None /\ Fail
           /\ UNCHANGED <<offered, lq, flusher, copied, cut, outside, len, probe, dirVars>>
  BY <1>3, FailInv
<1>4. QED
  BY <1>1, <1>2, <1>3 DEF Backup, Goto

\* What a rotation removes is behind log-num newer files.
LEMMA PruneInv ==
  ASSUME LogInv, Prune
  PROVE  LogInv'
<1>0. Kept \in Nat \ {0}
  BY LogAssumption DEF Kept
<1>1. PICK room : room = Kept - (IF present = 0 THEN 0 ELSE 1)
  OBVIOUS
<1>2. room \in Nat
  BY <1>0, <1>1
<1>a. CASE Fail /\ UNCHANGED <<archives, pruned>>
  BY <1>a, FailInv DEF Prune, dirVars
<1>b. SUFFICES ASSUME ~(Fail /\ UNCHANGED <<archives, pruned>>) PROVE LogInv'
  BY <1>a
<1>3. /\ step = "prune" /\ step' = "open"
      /\ \/ /\ archives' = [j \in {i \in 1 .. Len(archives) : i <= room} |-> archives[j]]
            /\ pruned' = pruned \cup {archives[j] : j \in {i \in 1 .. Len(archives) : i > room}}
         \/ archives' = archives /\ pruned' = pruned
      /\ UNCHANGED <<offered, lq, lost, flusher, copied, cut, line, handle, len, probe, present, inode, outside>>
  BY <1>1, <1>b DEF Prune, Goto
<1>4. /\ archives \in Seq(Nat) /\ Len(archives) \in Nat /\ Len(inode) \in Nat /\ present \in 0 .. Len(inode)
      /\ Younger \in Nat
      /\ \A j \in 1 .. Len(archives) : archives[j] \in Nat /\ archives[j] + j <= Younger
  BY DEF LogInv, LogTypeOK, ArchivesAged, Younger
<1>5. /\ archives' \in Seq(Nat) /\ Len(archives') <= Len(archives)
      /\ \A j \in 1 .. Len(archives') : archives'[j] = archives[j]
  <2>1. CASE archives' = archives
    BY <1>4, <2>1
  <2>2. CASE archives' = [j \in {i \in 1 .. Len(archives) : i <= room} |-> archives[j]]
    <3>1. PICK n \in Nat : n = IF room <= Len(archives) THEN room ELSE Len(archives)
      BY <1>2, <1>4
    <3>2. {i \in 1 .. Len(archives) : i <= room} = 1 .. n /\ n <= Len(archives)
      BY <1>2, <1>4, <3>1
    <3>3. archives' = [j \in 1 .. n |-> archives[j]]
      BY <2>2, <3>2
    <3>4. QED
      BY <1>4, <3>2, <3>3
  <2>3. QED
    BY <1>3, <2>1, <2>2
<1>6. \A j \in 1 .. Len(archives) : j > room => Len(inode) - archives[j] >= LogNum
  <2>1. SUFFICES ASSUME NEW j \in 1 .. Len(archives), j > room PROVE Len(inode) - archives[j] >= LogNum
    OBVIOUS
  <2>2. Younger - j <= Len(inode) - LogNum
    BY <1>1, <1>2, <1>4, <2>1, LogAssumption DEF Kept, Younger
  <2>3. QED
    BY <1>4, <2>2, LogAssumption
<1>7. LogTypeOK'
  <2>1. pruned' \subseteq Nat
    BY <1>3, <1>4 DEF LogInv, LogTypeOK
  <2>2. QED
    BY <1>3, <1>5, <2>1 DEF LogInv, LogTypeOK, Steps
<1>8. ArchivesAged' /\ PrunedAged'
  <2>1. Younger' = Younger /\ \A j \in 1 .. Len(archives') : j \in 1 .. Len(archives)
    BY <1>3, <1>4, <1>5 DEF Younger
  <2>2. ArchivesAged'
    BY <1>4, <1>5, <2>1 DEF ArchivesAged
  <2>3. PrunedAged'
    BY <1>3, <1>6 DEF LogInv, PrunedAged
  <2>4. QED
    BY <2>2, <2>3
<1>9. WriterHolds' /\ Harmless' /\ Accounted'
  BY <1>3 DEF LogInv, WriterHolds, Harmless, Accounted, Found
<1>10. QED
  BY <1>3, <1>7, <1>8, <1>9, FlushKept DEF LogInv

\* A new file at path is the youngest, and holds nothing anybody could miss.
LEMMA NewFile ==
  ASSUME LogInv, present = 0, inode' = Append(inode, NewInode), present' = Len(inode'),
         UNCHANGED <<offered, lq, lost, copied, cut, archives, pruned>>, line' = line
  PROVE  /\ inode' \in Seq(Inodes) /\ present' \in 0 .. Len(inode') /\ present' = Len(inode) + 1
         /\ present' # 0 /\ Len(inode') = Len(inode) + 1 /\ Len(inode) \in Nat
         /\ inode'[present'] = NewInode
         /\ ArchivesAged' /\ PrunedAged' /\ Accounted'
<1>1. /\ inode' \in Seq(Inodes) /\ Len(inode') = Len(inode) + 1 /\ Len(inode) \in Nat
      /\ \A i \in 1 .. Len(inode) : i \in 1 .. Len(inode') /\ inode'[i] = inode[i]
      /\ inode'[Len(inode) + 1] = NewInode
  BY Created DEF LogInv, LogTypeOK
<1>2. present' = Len(inode) + 1 /\ present' # 0
  BY <1>1
<1>3. ArchivesAged'
  BY <1>1, <1>2 DEF LogInv, ArchivesAged, Younger
<1>4. PrunedAged'
  BY <1>1, LogAssumption DEF LogInv, LogTypeOK, PrunedAged
<1>5. Accounted'
  BY <1>1 DEF LogInv, Accounted, Found
<1>6. QED
  BY <1>1, <1>2, <1>3, <1>4, <1>5

\* An existing file is opened with the lines it has.
LEMMA OpenFindsLines ==
  ASSUME LogInv, step = "open", handle = None, present # 0,
         inode' = IF Truncates THEN [inode EXCEPT ![present] = NewInode] ELSE inode
  PROVE  inode' = inode
<1>1. CASE Truncates
  <2>1. Known >= LogSize /\ Known \in Nat
    <3>1. SizeOf(present) \in Nat /\ len \in Nat
      BY SizeNat DEF LogInv, LogTypeOK
    <3>2. QED
      BY <1>1, <3>1 DEF Truncates, Known, LenOf
  <2>2. inode[present] = NewInode
    BY <2>1, LogAssumption DEF LogInv, Harmless
  <2>3. inode \in Seq(Inodes) /\ present \in 1 .. Len(inode)
    BY DEF LogInv, LogTypeOK
  <2>4. NewInode \in Inodes
    BY DEF NewInode, Inodes
  <2>5. /\ inode' \in Seq(Inodes) /\ Len(inode') = Len(inode)
        /\ \A i \in 1 .. Len(inode) : inode'[i] = inode[i]
    BY <1>1, <2>2, <2>3, <2>4, Written
  <2>6. QED
    BY <2>3, <2>5, SeqEqual
<1>2. CASE ~Truncates
  BY <1>2
<1>3. QED
  BY <1>1, <1>2

\* Opening, which may create the file and may fail.
LEMMA OpenFileInv ==
  ASSUME LogInv, OpenFile
  PROVE  LogInv'
<1>1. /\ step = "open"
      /\ UNCHANGED <<offered, lq, flusher, copied, cut, probe, archives, pruned, outside>>
  BY DEF OpenFile
<1>2. CASE handle # None
  <2>1. step' = "write" /\ UNCHANGED <<lost, line, handle, len, present, inode>>
    BY <1>2 DEF OpenFile, Goto
  <2>2. LogTypeOK'
    BY <1>1, <2>1 DEF LogInv, LogTypeOK, Steps
  <2>3. WriterHolds' /\ ArchivesAged' /\ PrunedAged' /\ Harmless'
    BY <1>1, <1>2, <2>1 DEF LogInv, WriterHolds, ArchivesAged, PrunedAged, Harmless, Younger
  <2>4. Accounted'
    BY <1>1, <2>1 DEF LogInv, Accounted, Found
  <2>5. QED
    BY <1>1, <2>1, <2>2, <2>3, <2>4, FlushKept DEF LogInv
<1>3. CASE /\ handle = None /\ present # 0
           /\ inode' = IF Truncates THEN [inode EXCEPT ![present] = NewInode] ELSE inode
           /\ handle' = [ino |-> present, pos |-> 0, append |-> ~Truncates]
           /\ len' = inode'[present].size
           /\ step' = "probe" /\ UNCHANGED <<lost, line, present>>
  <2>1. inode' = inode
    BY <1>1, <1>3, OpenFindsLines
  <2>2. present \in 1 .. Len(inode) /\ present \in Nat /\ inode[present] \in Inodes
    BY <1>3 DEF LogInv, LogTypeOK
  <2>3. len' \in Nat
    BY <1>3, <2>1, <2>2 DEF Inodes
  <2>4. handle' \in Handles /\ handle'.ino = present
    <3>1. (~Truncates) \in BOOLEAN
      BY DEF Truncates
    <3>2. QED
      BY <1>3, <2>2, <3>1, Zenon DEF Handles
  <2>5. handle' # None
    BY <1>3, <2>4 DEF None
  <2>6. LogTypeOK'
    BY <1>1, <1>3, <2>1, <2>3, <2>4 DEF LogInv, LogTypeOK, Steps
  <2>7. WriterHolds' /\ ArchivesAged' /\ PrunedAged' /\ Harmless'
    BY <1>1, <1>3, <2>1, <2>2, <2>4, <2>5
    DEF LogInv, WriterHolds, ArchivesAged, PrunedAged, Harmless, Younger
  <2>8. Accounted'
    BY <1>1, <1>3, <2>1 DEF LogInv, Accounted, Found
  <2>9. QED
    BY <1>1, <1>3, <2>6, <2>7, <2>8, FlushKept DEF LogInv
<1>4. CASE /\ handle = None /\ present = 0
           /\ inode' = Append(inode, NewInode) /\ present' = Len(inode')
           /\ handle' = [ino |-> present', pos |-> 0, append |-> FALSE]
           /\ len' = 0 /\ step' = "probe" /\ UNCHANGED <<lost, line>>
  <2>1. /\ inode' \in Seq(Inodes) /\ present' \in 0 .. Len(inode') /\ present' = Len(inode) + 1
        /\ present' # 0 /\ Len(inode') = Len(inode) + 1 /\ Len(inode) \in Nat
        /\ ArchivesAged' /\ PrunedAged' /\ Accounted'
    BY <1>1, <1>4, NewFile
  <2>2. present' \in Nat /\ present' \in 1 .. Len(inode')
    BY <2>1
  <2>3. handle' \in Handles /\ handle'.ino = present'
    BY <1>4, <2>2, 0 \in Nat, Zenon DEF Handles
  <2>4. handle' # None
    BY <2>1, <2>3 DEF None
  <2>5. LogTypeOK'
    BY <1>1, <1>4, <2>1, <2>3 DEF LogInv, LogTypeOK, Steps
  <2>6. WriterHolds' /\ Harmless'
    BY <1>4, <2>2, <2>3, <2>4 DEF WriterHolds, Harmless
  <2>7. QED
    BY <1>1, <1>4, <2>1, <2>5, <2>6, FlushKept DEF LogInv
<1>5. CASE Fail /\ UNCHANGED <<handle, len, present, inode>>
  BY <1>1, <1>5, FailInv DEF dirVars
<1>6. QED
  BY <1>2, <1>3, <1>4, <1>5 DEF OpenFile, Goto

\* The fingerprint is taken; the file is not touched.
LEMMA TakeProbeInv ==
  ASSUME LogInv, TakeProbe
  PROVE  LogInv'
<1>1. /\ step = "probe" /\ step' = "write" /\ probe' = [ino |-> present, len |-> SizeOf(present)]
      /\ UNCHANGED <<offered, lq, lost, flusher, copied, cut, line, handle, len, present, archives, inode,
                     pruned, outside>>
  BY DEF TakeProbe, OnDisk, Goto, queueVars, dirVars
<1>2. probe' \in [ino : Nat, len : Nat]
  BY <1>1, SizeNat DEF LogInv, LogTypeOK
<1>3. LogTypeOK'
  BY <1>1, <1>2 DEF LogInv, LogTypeOK, Steps
<1>4. WriterHolds' /\ ArchivesAged' /\ PrunedAged' /\ Harmless'
  BY <1>1 DEF LogInv, WriterHolds, ArchivesAged, PrunedAged, Harmless, Younger
<1>5. Accounted'
  BY <1>1 DEF LogInv, Accounted, Found
<1>6. QED
  BY <1>1, <1>3, <1>4, <1>5, FlushKept DEF LogInv

\* The line is in the file the handle is open on, wherever that file is now, or
\* known to be cut short.
LEMMA LandInv ==
  ASSUME LogInv, NEW b \in Nat, NEW whole \in BOOLEAN, Land(b, whole), outside' \in Nat
  PROVE  LogInv'
<1>1. PICK p : p = handle.ino
  OBVIOUS
<1>2. /\ step = "write" /\ p \in 1 .. Len(inode) /\ inode \in Seq(Inodes) /\ inode[p] \in Inodes
      /\ line \in Nat /\ len \in Nat /\ handle \in Handles
  BY <1>1 DEF Land, LogInv, LogTypeOK, WriterHolds
<1>3. PICK off : off = IF handle.append THEN inode[p].size ELSE handle.pos
  OBVIOUS
<1>4. off \in Nat /\ inode[p].size \in Nat /\ inode[p].lines \subseteq Nat
  BY <1>2, <1>3 DEF Inodes, Handles
<1>5. PICK end : end = IF off + b > inode[p].size THEN off + b ELSE inode[p].size
  OBVIOUS
<1>6. end \in Nat
  BY <1>4, <1>5
<1>7. PICK f : f = [lines |-> IF whole THEN inode[p].lines \cup {line} ELSE inode[p].lines, size |-> end]
  OBVIOUS
<1>8. f \in Inodes
  BY <1>2, <1>4, <1>6, <1>7 DEF Inodes
<1>9. inode' = [inode EXCEPT ![p] = f]
  BY <1>1, <1>3, <1>5, <1>7 DEF Land
<1>10. /\ inode' \in Seq(Inodes) /\ Len(inode') = Len(inode)
       /\ \A i \in 1 .. Len(inode) : inode'[i] = IF i = p THEN f ELSE inode[i]
  BY <1>2, <1>8, <1>9, Written
<1>11. /\ len' = len + b /\ line' = 0 /\ step' = "recv"
       /\ UNCHANGED <<offered, lq, lost, flusher, copied, present, archives, pruned>>
       /\ cut' = IF whole THEN cut ELSE cut \cup {line}
  BY DEF Land, Goto, queueVars
<1>12. probe' \in [ino : Nat, len : Nat]
  <2>1. PICK look : look = [ino |-> present, len |-> IF present = 0 THEN 0 ELSE inode'[present].size]
    OBVIOUS
  <2>2. present # 0 => inode'[present] \in Inodes
    BY <1>10 DEF LogInv, LogTypeOK
  <2>3. look \in [ino : Nat, len : Nat]
    BY <2>1, <2>2 DEF LogInv, LogTypeOK, Inodes
  <2>4. probe' = IF probe = NoProbe THEN look ELSE [probe EXCEPT !.len = @ + b]
    BY <2>1 DEF Land
  <2>5. probe \in [ino : Nat, len : Nat] /\ probe.len + b \in Nat
    BY DEF LogInv, LogTypeOK
  <2>6. [probe EXCEPT !.len = @ + b] \in [ino : Nat, len : Nat]
    BY <2>5
  <2>7. QED
    BY <2>3, <2>4, <2>6
<1>13. handle' \in Handles /\ (handle' # None => handle'.ino = p)
  <2>1. \/ handle' = None
        \/ handle' = [handle EXCEPT !.pos = IF handle.append THEN 0 ELSE handle.pos + b]
    BY DEF Land
  <2>2. CASE handle' = None
    BY <2>2, NoneTyped
  <2>3. CASE handle' = [handle EXCEPT !.pos = IF handle.append THEN 0 ELSE handle.pos + b]
    <3>1. PICK n : n = IF handle.append THEN 0 ELSE handle.pos + b
      OBVIOUS
    <3>2. n \in Nat
      BY <1>2, <3>1 DEF Handles
    <3>3. handle' = [handle EXCEPT !.pos = n]
      BY <2>3, <3>1
    <3>4. QED
      BY <1>1, <1>2, <3>2, <3>3, Zenon DEF Handles
  <2>4. QED
    BY <2>1, <2>2, <2>3
<1>14. LogTypeOK'
  BY <1>2, <1>10, <1>11, <1>12, <1>13 DEF LogInv, LogTypeOK, Steps
<1>15. WriterHolds' /\ ArchivesAged' /\ PrunedAged' /\ Harmless'
  BY <1>2, <1>10, <1>11, <1>13 DEF LogInv, WriterHolds, ArchivesAged, PrunedAged, Harmless, Younger
<1>16. Accounted'
  <2>1. \A i \in 1 .. Len(inode) : inode[i].lines \subseteq inode'[i].lines
    BY <1>7, <1>10
  <2>2. line \in cut' \/ (line \in inode'[p].lines /\ p \in 1 .. Len(inode'))
    BY <1>2, <1>7, <1>10, <1>11
  <2>3. SUFFICES ASSUME NEW n \in 1 .. offered PROVE Found(n)'
    BY <1>11 DEF Accounted
  <2>4. Found(n)
    BY DEF LogInv, Accounted
  <2>5. QED
    BY <1>10, <1>11, <2>1, <2>2, <2>4 DEF Found
<1>17. QED
  BY <1>11, <1>14, <1>15, <1>16, FlushKept DEF LogInv

\* A write takes all of the line, or a part of it.
LEMMA WriteInv ==
  ASSUME LogInv, LandWhole \/ LandShort
  PROVE  LogInv'
<1>1. outside \in Nat /\ outside' \in Nat
  <2>1. outside \in Nat
    BY DEF LogInv, LogTypeOK
  <2>2. outside' = outside \/ outside' = outside + 1
    BY Zenon DEF LandWhole, LandShort
  <2>3. QED
    BY <2>1, <2>2
<1>2. CASE LandWhole
  BY <1>1, <1>2, LandInv DEF LandWhole
<1>3. CASE LandShort
  BY <1>1, <1>3, LandInv DEF LandShort
<1>4. QED
  BY <1>2, <1>3

\* An error of the write system call.
LEMMA WriteFailsInv ==
  ASSUME LogInv, WriteFails
  PROVE  LogInv'
BY FailInv DEF WriteFails

\* The process dies: what was queued is gone with it, and known to be.
LEMMA RestartInv ==
  ASSUME LogInv, Restart
  PROVE  LogInv'
<1>1. /\ lost' = lost \cup {lq[i] : i \in {j \in 1 .. Len(lq) : lq[j] # Marker}} \cup ({line} \ {0})
      /\ lq' = <<>> /\ line' = 0 /\ flusher' = Quiet /\ step' = "recv"
      /\ handle' = None /\ len' = 0 /\ probe' = NoProbe /\ outside' = outside + 1
      /\ UNCHANGED <<offered, copied, cut, present, archives, inode, pruned>>
  BY DEF Restart, Goto, dirVars
<1>2. LogTypeOK'
  BY <1>1, NoneTyped DEF LogInv, LogTypeOK, Steps, Quiet
<1>3. WriterHolds' /\ ArchivesAged' /\ PrunedAged' /\ Harmless'
  BY <1>1 DEF LogInv, WriterHolds, ArchivesAged, PrunedAged, Harmless, Younger
<1>4. Accounted'
  <2>1. SUFFICES ASSUME NEW n \in 1 .. offered PROVE Found(n)'
    BY <1>1 DEF Accounted
  <2>2. Found(n) /\ n # Marker /\ n # 0
    BY LogAssumption DEF LogInv, LogTypeOK, Accounted
  <2>3. QED
    BY <1>1, <2>2 DEF Found
<1>5. MarkerLast' /\ FlushHonest'
  BY <1>1 DEF MarkerLast, FlushHonest, Quiet
<1>6. QED
  BY <1>2, <1>3, <1>4, <1>5 DEF LogInv

----------------------------------------------------------------------------
(* Others at work on the file.                                             *)

\* A file that is moved away keeps its lines.
LEMMA MoveAwayInv ==
  ASSUME LogInv, MoveAway
  PROVE  LogInv'
<1>1. /\ present # 0 /\ present' = 0 /\ outside' = outside + 1
      /\ UNCHANGED <<offered, lq, lost, flusher, step, line, handle, len, probe, copied, cut, archives,
                     inode, pruned>>
  BY DEF MoveAway, Intervene, queueVars
<1>2. LogTypeOK'
  BY <1>1 DEF LogInv, LogTypeOK
<1>3. ArchivesAged'
  BY <1>1 DEF LogInv, LogTypeOK, ArchivesAged, Younger
<1>4. WriterHolds' /\ PrunedAged' /\ Harmless'
  BY <1>1 DEF LogInv, WriterHolds, PrunedAged, Harmless
<1>5. Accounted'
  BY <1>1 DEF LogInv, Accounted, Found
<1>6. QED
  BY <1>1, <1>2, <1>3, <1>4, <1>5, FlushKept DEF LogInv

\* A file created by others is empty, so that the next open may truncate it.
LEMMA CreateFileInv ==
  ASSUME LogInv, CreateFile
  PROVE  LogInv'
<1>1. /\ present = 0 /\ inode' = Append(inode, NewInode) /\ present' = Len(inode') /\ outside' = outside + 1
      /\ UNCHANGED <<offered, lq, lost, flusher, step, line, handle, len, probe, copied, cut, archives, pruned>>
  BY DEF CreateFile, Intervene, queueVars
<1>2. /\ inode' \in Seq(Inodes) /\ present' \in 0 .. Len(inode')
      /\ Len(inode') = Len(inode) + 1 /\ Len(inode) \in Nat
      /\ inode'[present'] = NewInode
      /\ ArchivesAged' /\ PrunedAged' /\ Accounted'
  BY <1>1, NewFile
<1>3. LogTypeOK'
  BY <1>1, <1>2 DEF LogInv, LogTypeOK
<1>4. WriterHolds' /\ Harmless'
  BY <1>1, <1>2 DEF LogInv, WriterHolds, Harmless
<1>5. QED
  BY <1>1, <1>2, <1>3, <1>4, FlushKept DEF LogInv

\* A file is emptied in place after its lines were copied.
LEMMA CopyTruncateInv ==
  ASSUME LogInv, CopyTruncate
  PROVE  LogInv'
<1>1. /\ present # 0 /\ copied' = copied \cup inode[present].lines
      /\ inode' = [inode EXCEPT ![present] = NewInode] /\ outside' = outside + 1
      /\ UNCHANGED <<offered, lq, lost, flusher, cut, step, line, handle, len, probe, present, archives,
                     pruned>>
  BY DEF CopyTruncate, Intervene, queueVars
<1>2. /\ inode \in Seq(Inodes) /\ present \in 1 .. Len(inode) /\ NewInode \in Inodes
  BY <1>1 DEF LogInv, LogTypeOK, NewInode, Inodes
<1>3. /\ inode' \in Seq(Inodes) /\ Len(inode') = Len(inode)
      /\ \A i \in 1 .. Len(inode) : inode'[i] = IF i = present THEN NewInode ELSE inode[i]
  BY <1>1, <1>2, Written
<1>4. LogTypeOK'
  BY <1>1, <1>3 DEF LogInv, LogTypeOK
<1>5. WriterHolds' /\ ArchivesAged' /\ PrunedAged' /\ Harmless'
  BY <1>1, <1>2, <1>3 DEF LogInv, WriterHolds, ArchivesAged, PrunedAged, Harmless, Younger
<1>6. Accounted'
  BY <1>1, <1>2, <1>3 DEF LogInv, Accounted, Found
<1>7. QED
  BY <1>1, <1>4, <1>5, <1>6, FlushKept DEF LogInv

----------------------------------------------------------------------------
(* The theorems.                                                           *)

\* The invariant holds in every state the log writer reaches.
LEMMA LogInductive == LogSpec => []LogInv
<1>1. ASSUME LogInv, UNCHANGED logVars
      PROVE  LogInv'
  <2>1. UNCHANGED <<offered, lq, lost, copied, cut, flusher, step, line, handle, len, probe, present,
                    archives, inode, pruned, outside>>
    BY <1>1 DEF logVars
  <2>2. LogTypeOK' /\ WriterHolds'
    BY <1>1, <2>1 DEF LogInv, LogTypeOK, WriterHolds
  <2>3. ArchivesAged' /\ PrunedAged' /\ Harmless'
    BY <1>1, <2>1, FilesKept DEF dirVars
  <2>4. Accounted'
    BY <1>1, <2>1 DEF LogInv, Accounted, Found
  <2>5. QED
    BY <1>1, <2>1, <2>2, <2>3, <2>4, FlushKept DEF LogInv
<1>2. LogInv /\ [LogNext]_logVars => LogInv'
  BY <1>1, OfferInv, FlushAskInv, FlushReturnInv, TakeLineInv, TakeMarkerInv, CheckDiskInv, BackupInv,
     PruneInv, OpenFileInv, TakeProbeInv, WriteInv, WriteFailsInv, RestartInv, MoveAwayInv, CreateFileInv,
     CopyTruncateInv
  DEF LogNext
<1>3. QED
  BY <1>2, LogInitial, PTL DEF LogSpec

\* Every line offered is queued, being written, counted as dropped or failed,
\* copied away, or in a file, or the system has written a part of it only, and a
\* file is removed only behind log-num newer ones, however a rotation of the
\* writer interleaves with one from outside.
THEOREM NoLineLostHolds == LogSpec => []NoLineLost
<1>1. LogInv => NoLineLost
  <2>1. SUFFICES ASSUME LogInv, NEW n \in 1 .. offered
                 PROVE  n \in Queued \cup {line} \cup lost \cup copied \cup cut \cup Stored \cup Superseded
    BY DEF NoLineLost
  <2>2. Found(n) /\ n # Marker
    BY <2>1, LogAssumption DEF LogInv, LogTypeOK, Accounted
  <2>3. QED
    BY <2>1, <2>2, FilesHold DEF Found, Queued
<1>2. QED
  BY <1>1, LogInductive, PTL

\* flush_blocking reports success only when every line offered before the call
\* is out of the queue and no longer in the writer's hands.
THEOREM FlushHonestHolds == LogSpec => []FlushHonest
<1>1. LogInv => FlushHonest
  BY DEF LogInv
<1>2. QED
  BY <1>1, LogInductive, PTL

\* A rotation never truncates a line away: what the open of the next file finds
\* at path is empty or not yet full.
THEOREM OpenIsHarmless == LogSpec => []Harmless
<1>1. LogInv => Harmless
  BY DEF LogInv
<1>2. QED
  BY <1>1, LogInductive, PTL

----------------------------------------------------------------------------
(* The clock of the prefetch task.                                         *)

Entries == [until : Nat, hits : Int, marked : BOOLEAN, armed : BOOLEAN, wake : Nat, seen : BOOLEAN]
Calls == [at : {"idle", "read", "decide"}, dur : Nat, read : Nat]

\* What the variables hold.
ClockTypeOK ==
  /\ time \in Nat /\ tick \in Nat /\ lastCheck \in Nat
  /\ stock \in [Hosts -> Entries \cup {NoHost}]
  /\ timers \subseteq Nat /\ permit \in BOOLEAN
  /\ arming \in [Callers -> Calls]
  /\ ptask \in {"off", "wait", "awake", "arm"}

\* A tick that lies ahead, also one that a caller has read, has its sleep.
TicksSleep ==
  /\ tick > time => tick \in timers
  /\ \A c \in Callers :
       arming[c].at = "decide" /\ arming[c].read > time => arming[c].read \in timers

\* The task is between a scan and its wait only while its call is under way.
LoopArms == ptask = "arm" => arming[Loop].at # "idle"

\* An entry that a scan has still to look at, and the time by which one does.
Pending(k) == stock[k] # NoHost /\ stock[k].armed /\ ~stock[k].seen
Bound(k) == Longer(Longer(stock[k].until, stock[k].wake), lastCheck + 2 * MinInterval)

\* A wake-up in time is on its way: noticed already, or asked for, or asleep.
Covered ==
  \A k \in Hosts : Pending(k) =>
    \/ permit \/ ptask = "awake"
    \/ \E c \in Callers : arming[c].at # "idle" /\ time + arming[c].dur <= Bound(k)
    \/ \E t \in timers : t <= Bound(k)

\* And it is never late.
Timely == \A k \in Hosts : Pending(k) /\ ptask # "off" => time <= Bound(k)

\* The inductive invariant; a marked entry has been seen or had its expiry moved.
ClockInv ==
  /\ ClockTypeOK
  /\ lastCheck <= time
  /\ \A k \in Hosts : stock[k] # NoHost /\ stock[k].marked => stock[k].seen \/ ~stock[k].armed
  /\ TicksSleep /\ LoopArms /\ Covered /\ Timely

----------------------------------------------------------------------------
(* Operators.                                                              *)

\* Every nonempty set of numbers has a least one.
LEMMA Least ==
  ASSUME NEW S, S \subseteq Nat, S # {}
  PROVE  \E x \in S : \A y \in S : x <= y
<1>1. PICK x \in S : \A y \in S : ~ (<<y, x>> \in OpToRel(<, Nat))
  BY NatLessThanWellFounded, WFMin, Zenon
<1>2. \A y \in S : x <= y
  <2>1. SUFFICES ASSUME NEW y \in S, y < x PROVE FALSE
    OBVIOUS
  <2>2. <<y, x>> \in OpToRel(<, Nat)
    BY <2>1 DEF OpToRel
  <2>3. QED
    BY <1>1, <2>2
<1>3. QED
  BY <1>2

\* The bound of an entry is a number: its expiry, the time it asked for or two
\* intervals from the last scan, whichever is later.
LEMMA BoundFacts ==
  ASSUME ClockTypeOK, NEW k \in Hosts, stock[k] # NoHost
  PROVE  /\ stock[k] \in Entries /\ stock[k].until \in Nat /\ stock[k].wake \in Nat /\ Bound(k) \in Nat
         /\ stock[k].until <= Bound(k) /\ stock[k].wake <= Bound(k) /\ lastCheck + 2 * MinInterval <= Bound(k)
         /\ Bound(k) \in {stock[k].until, stock[k].wake, lastCheck + 2 * MinInterval}
<1>1. stock[k] \in Entries /\ stock[k].until \in Nat /\ stock[k].wake \in Nat
  BY DEF ClockTypeOK, Entries
<1>2. lastCheck + 2 * MinInterval \in Nat
  BY ClockAssumption DEF ClockTypeOK
<1>3. QED
  BY <1>1, <1>2 DEF Bound, Longer

\* most_recent is no longer than what an entry that is neither due nor
\* marked has left.
LEMMA MostRecentFacts ==
  ASSUME ClockTypeOK, NEW serve \in BOOLEAN
  PROVE  /\ MostRecent(serve) \in Nat
         /\ \A k \in Hosts : stock[k] # NoHost /\ ~stock[k].marked /\ ~Due(k, serve) =>
              MostRecent(serve) <= stock[k].until - time
<1> DEFINE left == {stock[k].until - time :
                      k \in {j \in Hosts : stock[j] # NoHost /\ ~stock[j].marked /\ ~Due(j, serve)}}
                   \cup {LongestTtl}
<1>1. left \subseteq Nat
  <2>1. \A k \in Hosts : stock[k] # NoHost /\ ~Due(k, serve) => stock[k].until - time \in Nat
    BY BoundFacts, ClockAssumption DEF Due, ClockTypeOK
  <2>2. QED
    BY <2>1, ClockAssumption
<1>2. \E x \in left : \A y \in left : x <= y
  <2>1. left # {}
    OBVIOUS
  <2>2. QED
    BY <1>1, <2>1, Least
<1>3. MostRecent(serve) \in left /\ \A y \in left : MostRecent(serve) <= y
  <2>1. MostRecent(serve) = CHOOSE x \in left : \A y \in left : x <= y
    BY DEF MostRecent
  <2>2. QED
    BY <1>2, <2>1
<1>4. QED
  BY <1>1, <1>3

\* The clock starts with nothing to wait for.
LEMMA ClockInitial == ClockInit => ClockInv
<1> SUFFICES ASSUME ClockInit PROVE ClockInv
  OBVIOUS
<1>1. ClockTypeOK
  BY DEF ClockInit, ClockTypeOK, Calls, NotArming
<1>2. \A k \in Hosts : stock[k] = NoHost
  BY DEF ClockInit
<1>3. TicksSleep /\ LoopArms
  BY DEF ClockInit, TicksSleep, LoopArms, NotArming
<1>4. lastCheck <= time
  BY DEF ClockInit
<1>5. QED
  BY <1>1, <1>2, <1>3, <1>4 DEF ClockInv, Covered, Timely, Pending

----------------------------------------------------------------------------
(* notify_after.                                                           *)

\* While the cache and the time of the last scan stay, so does what is pending
\* and until when.
LEMMA SameNeeds ==
  ASSUME UNCHANGED <<stock, lastCheck>>, NEW k \in Hosts
  PROVE  Pending(k)' = Pending(k) /\ Bound(k)' = Bound(k)
BY DEF Pending, Bound

\* The tick is read; a call without a duration notifies at once.
LEMMA ReadTickInv ==
  ASSUME ClockInv, NEW c \in Callers, ReadTick(c)
  PROVE  ClockInv'
<1>1. /\ arming \in [Callers -> Calls] /\ arming[c].at = "read" /\ arming[c] \in Calls
      /\ UNCHANGED <<time, stock, tick, timers, lastCheck>>
  BY DEF ReadTick, ClockInv, ClockTypeOK
<1>2. CASE arming[c].dur = 0
  <2>1. /\ arming' = [arming EXCEPT ![c] = NotArming] /\ permit' = TRUE
        /\ ptask' = IF c = Loop /\ ptask = "arm" THEN "wait" ELSE ptask
    BY <1>2 DEF ReadTick, Disarm, Resume
  <2>2. NotArming \in Calls
    BY DEF NotArming, Calls
  <2>3. /\ arming' \in [Callers -> Calls] /\ arming'[c].at = "idle"
        /\ \A x \in Callers : x # c => arming'[x] = arming[x]
    BY <1>1, <2>1, <2>2 DEF NotArming
  <2>4. ClockTypeOK'
    BY <1>1, <2>1, <2>3 DEF ClockInv, ClockTypeOK
  <2>5. TicksSleep' /\ LoopArms'
    BY <1>1, <2>1, <2>3 DEF ClockInv, TicksSleep, LoopArms, ClockTypeOK, Callers
  <2>6. Covered'
    BY <2>1 DEF Covered
  <2>7. Timely'
    BY <1>1, <2>1, SameNeeds DEF ClockInv, Timely
  <2>8. QED
    BY <1>1, <2>4, <2>5, <2>6, <2>7 DEF ClockInv
<1>3. CASE arming[c].dur # 0
  <2>1. /\ arming' = [arming EXCEPT ![c].at = "decide", ![c].read = tick]
        /\ permit' = permit /\ ptask' = ptask
    BY <1>3 DEF ReadTick
  <2>2. /\ arming' \in [Callers -> Calls]
        /\ arming'[c].at = "decide" /\ arming'[c].read = tick /\ arming'[c].dur = arming[c].dur
        /\ \A x \in Callers : x # c => arming'[x] = arming[x]
    BY <1>1, <2>1 DEF Calls, ClockInv, ClockTypeOK
  <2>3. ClockTypeOK'
    BY <1>1, <2>1, <2>2 DEF ClockInv, ClockTypeOK
  <2>4. TicksSleep' /\ LoopArms'
    BY <1>1, <2>1, <2>2 DEF ClockInv, TicksSleep, LoopArms, Callers
  <2>5. Covered'
    BY <1>1, <2>1, <2>2, SameNeeds DEF ClockInv, Covered
  <2>6. Timely'
    BY <1>1, <2>1, SameNeeds DEF ClockInv, Timely
  <2>7. QED
    BY <1>1, <2>3, <2>4, <2>5, <2>6 DEF ClockInv
<1>4. QED
  BY <1>2, <1>3

\* A call is over: its sleep is spawned, or the one it has seen comes earlier.
LEMMA WriteTickInv ==
  ASSUME ClockInv, NEW c \in Callers, WriteTick(c)
  PROVE  ClockInv'
<1>1. /\ arming \in [Callers -> Calls] /\ arming[c].at = "decide" /\ arming[c] \in Calls
      /\ arming[c].dur \in Nat /\ arming[c].read \in Nat
      /\ time \in Nat /\ timers \subseteq Nat
      /\ arming' = [arming EXCEPT ![c] = NotArming]
      /\ ptask' = IF c = Loop /\ ptask = "arm" THEN "wait" ELSE ptask
      /\ UNCHANGED <<time, stock, permit, lastCheck>>
  BY DEF WriteTick, Disarm, Resume, ClockInv, ClockTypeOK, Calls
<1>2. NotArming \in Calls
  BY DEF NotArming, Calls
<1>3. /\ arming' \in [Callers -> Calls] /\ arming'[c].at = "idle"
      /\ \A x \in Callers : x # c => arming'[x] = arming[x]
  BY <1>1, <1>2 DEF NotArming
<1>4. /\ timers \subseteq timers' /\ timers' \subseteq Nat /\ tick' \in Nat
      /\ tick' > time => tick' \in timers'
      /\ \E t \in timers' : t <= time + arming[c].dur
  <2>1. CASE SoonEnough(c)
    <3>1. tick' = tick /\ timers' = timers
      BY <2>1 DEF WriteTick
    <3>2. arming[c].read > time /\ time + arming[c].dur > arming[c].read
      BY <2>1 DEF SoonEnough
    <3>3. arming[c].read \in timers
      BY <1>1, <3>2 DEF ClockInv, TicksSleep
    <3>4. QED
      BY <1>1, <3>1, <3>2, <3>3 DEF ClockInv, ClockTypeOK, TicksSleep
  <2>2. CASE ~SoonEnough(c)
    <3>1. tick' = time + arming[c].dur /\ timers' = timers \cup {time + arming[c].dur}
      BY <2>2 DEF WriteTick
    <3>2. PICK t \in Nat : t = time + arming[c].dur
      BY <1>1
    <3>3. tick' = t /\ timers' = timers \cup {t} /\ t <= t
      BY <3>1, <3>2
    <3>4. QED
      BY <1>1, <3>2, <3>3
  <2>3. QED
    BY <2>1, <2>2
<1>5. ClockTypeOK'
  BY <1>1, <1>3, <1>4 DEF ClockInv, ClockTypeOK
<1>6. TicksSleep' /\ LoopArms'
  BY <1>1, <1>3, <1>4 DEF ClockInv, TicksSleep, LoopArms, ClockTypeOK, Callers
<1>7. Covered'
  <2>1. SUFFICES ASSUME NEW k \in Hosts, Pending(k)',
                        ~permit, ptask # "awake"
                 PROVE  \/ \E x \in Callers : arming'[x].at # "idle" /\ time + arming'[x].dur <= Bound(k)
                        \/ \E t \in timers' : t <= Bound(k)
    BY <1>1, SameNeeds DEF Covered
  <2>2. Pending(k) /\ Bound(k) \in Nat
    BY <1>1, <2>1, SameNeeds, BoundFacts DEF ClockInv, Pending
  <2>3. CASE \E x \in Callers : arming[x].at # "idle" /\ time + arming[x].dur <= Bound(k)
    <3>1. PICK x \in Callers : arming[x].at # "idle" /\ time + arming[x].dur <= Bound(k)
      BY <2>3
    <3>2. CASE x = c
      BY <1>1, <1>4, <2>2, <3>1, <3>2
    <3>3. CASE x # c
      BY <1>3, <3>1, <3>3
    <3>4. QED
      BY <3>2, <3>3
  <2>4. CASE \E t \in timers : t <= Bound(k)
    BY <1>4, <2>4
  <2>5. QED
    BY <2>1, <2>2, <2>3, <2>4 DEF ClockInv, Covered
<1>8. Timely'
  <2>1. ptask' # "off" => ptask # "off"
    BY <1>1
  <2>2. QED
    BY <1>1, <2>1, SameNeeds DEF ClockInv, Timely
<1>9. QED
  BY <1>1, <1>5, <1>6, <1>7, <1>8 DEF ClockInv

\* A sleep ends: its wake-up is noticed.
LEMMA FireInv ==
  ASSUME ClockInv, NEW t \in timers, Fire(t)
  PROVE  ClockInv'
<1>1. /\ t <= time /\ timers' = timers \ {t} /\ permit' = TRUE /\ time \in Nat /\ t \in Nat
      /\ UNCHANGED <<time, stock, tick, arming, ptask, lastCheck>>
  BY DEF Fire, ClockInv, ClockTypeOK
<1>2. ClockTypeOK'
  BY <1>1 DEF ClockInv, ClockTypeOK
<1>3. TicksSleep' /\ LoopArms'
  <2>1. \A c \in Callers : arming[c].read \in Nat
    BY DEF ClockInv, ClockTypeOK, Calls
  <2>2. tick \in Nat
    BY DEF ClockInv, ClockTypeOK
  <2>3. QED
    BY <1>1, <2>1, <2>2 DEF ClockInv, TicksSleep, LoopArms, Callers
<1>4. Covered'
  BY <1>1 DEF Covered
<1>5. Timely'
  BY <1>1, SameNeeds DEF ClockInv, Timely
<1>6. QED
  BY <1>1, <1>2, <1>3, <1>4, <1>5 DEF ClockInv

----------------------------------------------------------------------------
(* The prefetch task.                                                      *)

\* The wake-up is taken.
LEMMA WakeInv ==
  ASSUME ClockInv, Wake
  PROVE  ClockInv'
<1>1. /\ ptask = "wait" /\ permit' = FALSE /\ ptask' = "awake"
      /\ UNCHANGED <<time, stock, tick, timers, arming, lastCheck>>
  BY DEF Wake
<1>2. ClockTypeOK'
  BY <1>1 DEF ClockInv, ClockTypeOK
<1>3. TicksSleep' /\ LoopArms' /\ Covered'
  BY <1>1 DEF ClockInv, TicksSleep, LoopArms, Covered
<1>4. Timely'
  BY <1>1, SameNeeds DEF ClockInv, Timely
<1>5. QED
  BY <1>1, <1>2, <1>3, <1>4 DEF ClockInv

\* The scan sees what is due, and asks for a wake-up that is soon enough
\* for everything else.
LEMMA ScanInv ==
  ASSUME ClockInv, NEW serve \in BOOLEAN, Scan(serve)
  PROVE  ClockInv'
<1>1. /\ ptask = "awake" /\ arming[Loop].at = "idle" /\ ptask' = "arm" /\ Loop \in Callers
      /\ arming \in [Callers -> Calls]
      /\ time \in Nat /\ lastCheck \in Nat /\ MinInterval \in Nat /\ lastCheck <= time
      /\ UNCHANGED <<time, tick, timers, permit>>
  BY ClockAssumption DEF Scan, ClockInv, ClockTypeOK, Callers
<1>2. PICK d : d = IF time - lastCheck > MinInterval THEN Longer(MostRecent(serve), MinInterval) ELSE MinInterval
  OBVIOUS
<1>3. d \in Nat
  BY <1>1, <1>2, MostRecentFacts DEF ClockInv, Longer
<1>4. arming' = [arming EXCEPT ![Loop] = [at |-> "read", dur |-> d, read |-> 0]]
  BY <1>2 DEF Scan, Arm
<1>5. /\ arming' \in [Callers -> Calls] /\ arming'[Loop] = [at |-> "read", dur |-> d, read |-> 0]
      /\ \A x \in Callers : x # Loop => arming'[x] = arming[x]
  <2>1. [at |-> "read", dur |-> d, read |-> 0] \in Calls
    BY <1>3 DEF Calls
  <2>2. QED
    BY <1>1, <1>4, <2>1
<1>6. TicksSleep' /\ LoopArms'
  BY <1>1, <1>5 DEF ClockInv, TicksSleep, LoopArms
<1>7. CASE time - lastCheck > MinInterval
  <2>0. lastCheck' = time /\ d = Longer(MostRecent(serve), MinInterval)
    BY <1>2, <1>7 DEF Scan
  <2>1. stock' = [k \in Hosts |->
             IF Picked(k, serve) THEN [stock[k] EXCEPT !.marked = TRUE, !.hits = @ - 1, !.seen = TRUE]
             ELSE IF Due(k, serve) THEN [stock[k] EXCEPT !.seen = TRUE] ELSE stock[k]]
    BY <1>7 DEF Scan
  <2>2. ASSUME NEW k \in Hosts
        PROVE  /\ stock'[k] \in Entries \cup {NoHost}
               /\ stock'[k] # NoHost /\ stock'[k].marked => stock'[k].seen \/ ~stock'[k].armed
               /\ Pending(k)' => stock'[k] = stock[k] /\ Pending(k) /\ ~Due(k, serve)
    <3>1. CASE Picked(k, serve)
      <4>1. stock[k] \in Entries /\ stock[k].hits - 1 \in Int
        BY <3>1 DEF Picked, Due, ClockInv, ClockTypeOK, Entries
      <4>2. stock'[k] = [stock[k] EXCEPT !.marked = TRUE, !.hits = stock[k].hits - 1, !.seen = TRUE]
        BY <2>1, <3>1
      <4>3. stock'[k] \in Entries /\ stock'[k].seen = TRUE
        BY <4>1, <4>2, Zenon DEF Entries
      <4>4. QED
        BY <4>3 DEF Pending
    <3>2. CASE ~Picked(k, serve) /\ Due(k, serve)
      <4>1. stock[k] \in Entries
        BY <3>2 DEF Due, ClockInv, ClockTypeOK
      <4>2. stock'[k] = [stock[k] EXCEPT !.seen = TRUE]
        BY <2>1, <3>2
      <4>3. stock'[k] \in Entries /\ stock'[k].seen = TRUE
        BY <4>1, <4>2, Zenon DEF Entries
      <4>4. QED
        BY <4>3 DEF Pending
    <3>3. CASE ~Picked(k, serve) /\ ~Due(k, serve)
      <4>1. stock'[k] = stock[k]
        BY <2>1, <3>3
      <4>2. QED
        BY <3>3, <4>1 DEF Pending, ClockInv, ClockTypeOK
    <3>4. QED
      BY <3>1, <3>2, <3>3
  <2>3. ClockTypeOK'
    BY <1>1, <1>5, <2>0, <2>1, <2>2 DEF ClockInv, ClockTypeOK
  <2>4. ASSUME NEW k \in Hosts, Pending(k)'
        PROVE  time + d <= Bound(k)' /\ time <= Bound(k)'
    <3>1. /\ stock'[k] = stock[k] /\ stock[k] # NoHost /\ ~stock[k].marked /\ ~Due(k, serve)
      BY <2>2, <2>4 DEF Pending, ClockInv
    <3>2. /\ stock[k].until \in Nat /\ stock[k].wake \in Nat /\ MostRecent(serve) \in Nat
          /\ MostRecent(serve) <= stock[k].until - time
      BY <3>1, MostRecentFacts, BoundFacts DEF ClockInv
    <3>3. Bound(k)' = Longer(Longer(stock[k].until, stock[k].wake), time + 2 * MinInterval)
      BY <2>0, <3>1 DEF Bound
    <3>4. CASE MostRecent(serve) > MinInterval
      BY <1>1, <2>0, <3>2, <3>3, <3>4 DEF Longer
    <3>5. CASE ~ (MostRecent(serve) > MinInterval)
      BY <1>1, <2>0, <3>2, <3>3, <3>5 DEF Longer
    <3>6. QED
      BY <3>4, <3>5
  <2>5. Covered'
    BY <1>1, <1>5, <2>4 DEF Covered
  <2>6. Timely'
    BY <1>1, <2>4 DEF Timely
  <2>7. lastCheck' <= time'
    BY <1>1, <2>0
  <2>8. QED
    BY <1>6, <2>2, <2>3, <2>5, <2>6, <2>7 DEF ClockInv
<1>8. CASE ~ (time - lastCheck > MinInterval)
  <2>1. d = MinInterval /\ stock' = stock /\ lastCheck' = lastCheck
    BY <1>2, <1>8 DEF Scan
  <2>2. ClockTypeOK'
    BY <1>1, <1>5, <2>1 DEF ClockInv, ClockTypeOK
  <2>3. ASSUME NEW k \in Hosts, Pending(k)'
        PROVE  Pending(k) /\ Bound(k)' = Bound(k) /\ time + d <= Bound(k)
    <3>1. Pending(k) /\ Bound(k)' = Bound(k)
      BY <2>1, <2>3, SameNeeds
    <3>2. Bound(k) \in Nat /\ lastCheck + 2 * MinInterval <= Bound(k)
      BY <3>1, BoundFacts DEF Pending, ClockInv
    <3>3. time + d <= lastCheck + 2 * MinInterval
      BY <1>1, <1>8, <2>1
    <3>4. QED
      BY <1>1, <1>3, <3>1, <3>2, <3>3
  <2>4. Covered'
    BY <1>1, <1>5, <2>3 DEF Covered
  <2>5. Timely'
    BY <1>1, <2>3 DEF ClockInv, Timely
  <2>6. QED
    BY <1>1, <1>6, <2>1, <2>2, <2>4, <2>5 DEF ClockInv
<1>9. QED
  BY <1>7, <1>8

\* A new task starts its interval anew; what is on its way stays so.
LEMMA SwitchPrefetchInv ==
  ASSUME ClockInv, SwitchPrefetch
  PROVE  ClockInv'
<1>1. /\ UNCHANGED <<time, stock, tick, timers, permit, arming>>
      /\ ptask \in {"wait", "off"} /\ ptask' \in {"wait", "off"}
      /\ time \in Nat /\ lastCheck \in Nat /\ MinInterval \in Nat /\ lastCheck <= time
      /\ \/ ptask' = "off" /\ lastCheck' = lastCheck
         \/ ptask' = "wait" /\ lastCheck' = time
  BY ClockAssumption DEF SwitchPrefetch, ClockInv, ClockTypeOK
<1>2. ClockTypeOK' /\ lastCheck' <= time'
  BY <1>1 DEF ClockInv, ClockTypeOK
<1>3. TicksSleep' /\ LoopArms'
  BY <1>1 DEF ClockInv, TicksSleep, LoopArms
<1>4. ASSUME NEW k \in Hosts, Pending(k)'
      PROVE  Pending(k) /\ {Bound(k), Bound(k)'} \subseteq Nat /\ Bound(k) <= Bound(k)'
             /\ (ptask' # "off" => time <= Bound(k)')
  <2>1. Pending(k) /\ stock'[k] = stock[k] /\ stock[k] # NoHost
    BY <1>1, <1>4 DEF Pending
  <2>2. stock[k].until \in Nat /\ stock[k].wake \in Nat
    BY <2>1, BoundFacts DEF ClockInv
  <2>3. QED
    BY <1>1, <2>1, <2>2 DEF Bound, Longer
<1>5. Covered'
  <2>1. SUFFICES ASSUME NEW k \in Hosts, Pending(k)', ~permit
                 PROVE  \/ \E x \in Callers : arming[x].at # "idle" /\ time + arming[x].dur <= Bound(k)'
                        \/ \E t \in timers : t <= Bound(k)'
    BY <1>1 DEF Covered
  <2>2. /\ Pending(k) /\ {Bound(k), Bound(k)'} \subseteq Nat /\ Bound(k) <= Bound(k)'
        /\ \A x \in Callers : time + arming[x].dur \in Nat
        /\ timers \subseteq Nat
    BY <1>4, <2>1 DEF ClockInv, ClockTypeOK, Calls
  <2>3. \/ \E x \in Callers : arming[x].at # "idle" /\ time + arming[x].dur <= Bound(k)
        \/ \E t \in timers : t <= Bound(k)
    BY <1>1, <2>1, <2>2 DEF ClockInv, Covered
  <2>4. QED
    BY <2>2, <2>3
<1>6. Timely'
  BY <1>1, <1>4 DEF Timely
<1>7. QED
  BY <1>1, <1>2, <1>3, <1>5, <1>6 DEF ClockInv

----------------------------------------------------------------------------
(* Queries.                                                                *)

\* What a new entry starts with is the number of hits it may keep.
LEMMA HitsFacts ==
  ASSUME ClockTypeOK, NEW k \in Hosts
  PROVE  Hits(k) \subseteq Int
<1>1. stock[k] # NoHost => stock[k].hits \in Int
  BY DEF ClockTypeOK, Entries
<1>2. QED
  BY <1>1 DEF Hits

\* A new entry is covered by the call that its task makes.
LEMMA StoreInv ==
  ASSUME ClockInv, NEW c \in Armers, NEW k \in Hosts, NEW ttl \in Ttls, NEW minTtl \in Ttls,
         Store(c, k, ttl, minTtl)
  PROVE  ClockInv'
<1>1. /\ c \in Callers /\ c # Loop /\ arming[c].at = "idle" /\ arming \in [Callers -> Calls]
      /\ time \in Nat /\ minTtl \in Nat /\ time + ttl \in Nat /\ time + minTtl \in Nat
      /\ stock \in [Hosts -> Entries \cup {NoHost}]
      /\ UNCHANGED <<time, tick, timers, permit, ptask, lastCheck>>
  BY ClockAssumption DEF Store, ClockInv, ClockTypeOK, Callers
<1>2. PICK h \in Int : stock' = [stock EXCEPT ![k] =
        [until |-> time + ttl, hits |-> h, marked |-> FALSE, armed |-> TRUE, wake |-> time + minTtl, seen |-> FALSE]]
  BY HitsFacts DEF Store, ClockInv
<1>3. PICK e : e = [until |-> time + ttl, hits |-> h, marked |-> FALSE, armed |-> TRUE,
                    wake |-> time + minTtl, seen |-> FALSE]
  OBVIOUS
<1>4. e \in Entries /\ e.until = time + ttl /\ e.wake = time + minTtl /\ e.marked = FALSE
  BY <1>1, <1>3, Zenon DEF Entries
<1>5. /\ stock' \in [Hosts -> Entries \cup {NoHost}] /\ stock'[k] = e
      /\ \A x \in Hosts : x # k => stock'[x] = stock[x]
  BY <1>1, <1>2, <1>3, <1>4
<1>6. /\ arming' \in [Callers -> Calls]
      /\ \A x \in Callers : x # c => arming'[x] = arming[x]
      /\ arming'[c] = [at |-> "read", dur |-> minTtl, read |-> 0]
  <2>1. [at |-> "read", dur |-> minTtl, read |-> 0] \in Calls
    BY <1>1 DEF Calls
  <2>2. arming' = [arming EXCEPT ![c] = [at |-> "read", dur |-> minTtl, read |-> 0]]
    BY DEF Store, Arm
  <2>3. QED
    BY <1>1, <2>1, <2>2
<1>7. ClockTypeOK'
  BY <1>1, <1>5, <1>6 DEF ClockInv, ClockTypeOK
<1>8. TicksSleep' /\ LoopArms'
  BY <1>1, <1>6 DEF ClockInv, TicksSleep, LoopArms, Callers
<1>9. ASSUME NEW x \in Hosts, x # k
      PROVE  Pending(x)' = Pending(x) /\ Bound(x)' = Bound(x)
  BY <1>1, <1>5, <1>9 DEF Pending, Bound
<1>10. Bound(k)' \in Nat /\ time + minTtl <= Bound(k)' /\ time <= Bound(k)'
  <2>1. Bound(k)' = Longer(Longer(time + ttl, time + minTtl), lastCheck + 2 * MinInterval)
    BY <1>1, <1>4, <1>5 DEF Bound
  <2>2. lastCheck + 2 * MinInterval \in Nat
    BY ClockAssumption DEF ClockInv, ClockTypeOK
  <2>3. QED
    BY <1>1, <2>1, <2>2 DEF Longer
<1>11. Covered'
  <2>1. SUFFICES ASSUME NEW x \in Hosts, Pending(x)', ~permit, ptask # "awake"
                 PROVE  \/ \E y \in Callers : arming'[y].at # "idle" /\ time + arming'[y].dur <= Bound(x)'
                        \/ \E t \in timers : t <= Bound(x)'
    BY <1>1 DEF Covered
  <2>2. CASE x = k
    BY <1>1, <1>6, <1>10, <2>1, <2>2
  <2>3. CASE x # k
    <3>1. Pending(x) /\ Bound(x)' = Bound(x)
      BY <1>9, <2>1, <2>3
    <3>2. CASE \E y \in Callers : arming[y].at # "idle" /\ time + arming[y].dur <= Bound(x)
      BY <1>1, <1>6, <3>1, <3>2
    <3>3. CASE \E t \in timers : t <= Bound(x)
      BY <3>1, <3>3
    <3>4. QED
      BY <2>1, <3>1, <3>2, <3>3 DEF ClockInv, Covered
  <2>4. QED
    BY <2>2, <2>3
<1>12. Timely'
  BY <1>1, <1>9, <1>10 DEF ClockInv, Timely
<1>13. \A x \in Hosts : stock'[x] # NoHost /\ stock'[x].marked => stock'[x].seen \/ ~stock'[x].armed
  BY <1>4, <1>5 DEF ClockInv
<1>14. QED
  BY <1>1, <1>7, <1>8, <1>11, <1>12, <1>13 DEF ClockInv

\* A change to one entry that leaves its expiry and what the scan knows of it
\* alone, or has it wait for no scan, or removes it.
LEMMA EntryInv ==
  ASSUME ClockInv, NEW k \in Hosts, NEW e \in Entries \cup {NoHost}, stock' = [stock EXCEPT ![k] = e],
         \/ e = NoHost
         \/ e \in Entries /\ e.armed = FALSE
         \/ /\ stock[k] # NoHost
            /\ e \in Entries /\ e.until = stock[k].until /\ e.wake = stock[k].wake /\ e.armed = stock[k].armed
            /\ e.seen = stock[k].seen /\ (e.marked => stock[k].marked),
         UNCHANGED <<time, tick, timers, permit, arming, ptask, lastCheck>>
  PROVE  ClockInv'
<1>1. /\ stock' \in [Hosts -> Entries \cup {NoHost}] /\ stock'[k] = e
      /\ \A x \in Hosts : x # k => stock'[x] = stock[x]
  BY DEF ClockInv, ClockTypeOK
<1>2. ClockTypeOK' /\ lastCheck' <= time'
  BY <1>1 DEF ClockInv, ClockTypeOK
<1>3. TicksSleep' /\ LoopArms'
  BY DEF ClockInv, TicksSleep, LoopArms
<1>4. ASSUME NEW x \in Hosts, Pending(x)'
      PROVE  Pending(x) /\ Bound(x)' = Bound(x)
  BY <1>1, <1>4 DEF Pending, Bound
<1>5. Covered'
  BY <1>4 DEF ClockInv, Covered
<1>6. Timely'
  BY <1>4 DEF ClockInv, Timely
<1>7. \A x \in Hosts : stock'[x] # NoHost /\ stock'[x].marked => stock'[x].seen \/ ~stock'[x].armed
  BY <1>1 DEF ClockInv
<1>8. QED
  BY <1>2, <1>3, <1>5, <1>6, <1>7 DEF ClockInv

\* An entry that asks for no wake-up.
LEMMA StoreOnlyInv ==
  ASSUME ClockInv, NEW k \in Hosts, NEW ttl \in Ttls, StoreOnly(k, ttl)
  PROVE  ClockInv'
<1>1. time + ttl \in Nat /\ UNCHANGED <<time, tick, timers, permit, arming, ptask, lastCheck>>
  BY ClockAssumption DEF StoreOnly, ClockInv, ClockTypeOK
<1>2. PICK h \in Int : stock' = [stock EXCEPT ![k] =
        [until |-> time + ttl, hits |-> h, marked |-> FALSE, armed |-> FALSE, wake |-> 0, seen |-> FALSE]]
  BY HitsFacts DEF StoreOnly, ClockInv
<1>3. PICK e : e = [until |-> time + ttl, hits |-> h, marked |-> FALSE, armed |-> FALSE, wake |-> 0, seen |-> FALSE]
  OBVIOUS
<1>4. 0 \in Nat
  OBVIOUS
<1>5. e \in Entries /\ e.armed = FALSE
  BY <1>1, <1>3, <1>4, Zenon DEF Entries
<1>6. stock' = [stock EXCEPT ![k] = e]
  BY <1>2, <1>3
<1>7. QED
  BY <1>1, <1>5, <1>6, EntryInv

\* A stale hit moves the expiry.
LEMMA StaleInv ==
  ASSUME ClockInv, NEW k \in Hosts, Stale(k)
  PROVE  ClockInv'
<1>1. /\ stock[k] # NoHost /\ stock[k] \in Entries /\ stock[k].until \in Nat
      /\ stock \in [Hosts -> Entries \cup {NoHost}]
      /\ UNCHANGED <<time, tick, timers, permit, arming, ptask, lastCheck>>
  BY DEF Stale, ClockInv, ClockTypeOK, Entries
<1>2. PICK n \in Nat : n = Longer(stock[k].until, time + StaleTtl)
  BY <1>1, ClockAssumption DEF Longer, ClockInv, ClockTypeOK
<1>3. PICK e : e = [stock[k] EXCEPT !.marked = TRUE, !.armed = FALSE, !.until = n]
  OBVIOUS
<1>4. e \in Entries /\ e.armed = FALSE
  BY <1>1, <1>3, Zenon DEF Entries
<1>5. stock' = [stock EXCEPT ![k] = e]
  BY <1>1, <1>2, <1>3 DEF Stale
<1>6. QED
  BY <1>1, <1>4, <1>5, EntryInv

\* A hit.
LEMMA AskInv ==
  ASSUME ClockInv, NEW k \in Hosts, Ask(k)
  PROVE  ClockInv'
<1>1. /\ stock[k] # NoHost /\ stock[k] \in Entries /\ stock[k].hits + 1 \in Int
      /\ UNCHANGED <<time, tick, timers, permit, arming, ptask, lastCheck>>
  BY DEF Ask, ClockInv, ClockTypeOK, Entries
<1>2. PICK e : e = [stock[k] EXCEPT !.hits = stock[k].hits + 1]
  OBVIOUS
<1>3. /\ e \in Entries /\ e.until = stock[k].until /\ e.wake = stock[k].wake /\ e.armed = stock[k].armed
      /\ e.seen = stock[k].seen /\ e.marked = stock[k].marked
  BY <1>1, <1>2, Zenon DEF Entries
<1>4. stock' = [stock EXCEPT ![k] = e]
  BY <1>2 DEF Ask
<1>5. QED
  BY <1>1, <1>3, <1>4, EntryInv

\* The refresh of an entry has failed.
LEMMA GiveUpInv ==
  ASSUME ClockInv, NEW k \in Hosts, GiveUp(k)
  PROVE  ClockInv'
<1>1. /\ stock[k] # NoHost /\ stock[k] \in Entries
      /\ UNCHANGED <<time, tick, timers, permit, arming, ptask, lastCheck>>
  BY DEF GiveUp, ClockInv, ClockTypeOK
<1>2. PICK e : e = [stock[k] EXCEPT !.marked = FALSE]
  OBVIOUS
<1>3. /\ e \in Entries /\ e.until = stock[k].until /\ e.wake = stock[k].wake /\ e.armed = stock[k].armed
      /\ e.seen = stock[k].seen /\ e.marked = FALSE
  BY <1>1, <1>2, Zenon DEF Entries
<1>4. stock' = [stock EXCEPT ![k] = e]
  BY <1>2 DEF GiveUp
<1>5. QED
  BY <1>1, <1>3, <1>4, EntryInv

\* An entry leaves the cache.
LEMMA RemoveInv ==
  ASSUME ClockInv, NEW k \in Hosts, Remove(k)
  PROVE  ClockInv'
BY EntryInv DEF Remove

\* Time passes only when everything that can run has run.
LEMMA ElapseInv ==
  ASSUME ClockInv, Elapse
  PROVE  ClockInv'
<1>1. /\ \A c \in Callers : arming[c].at = "idle"
      /\ \A t \in timers : t > time
      /\ ptask # "awake" /\ ~(ptask = "wait" /\ permit)
      /\ time' = time + 1 /\ time \in Nat /\ lastCheck \in Nat /\ lastCheck <= time /\ tick \in Nat
      /\ timers \subseteq Nat
      /\ UNCHANGED <<stock, tick, timers, permit, arming, ptask, lastCheck>>
  BY DEF Elapse, ClockInv, ClockTypeOK
<1>2. ClockTypeOK' /\ lastCheck' <= time'
  BY <1>1 DEF ClockInv, ClockTypeOK
<1>3. TicksSleep' /\ LoopArms'
  BY <1>1 DEF ClockInv, TicksSleep, LoopArms
<1>4. ptask \in {"off", "wait"}
  BY <1>1 DEF ClockInv, ClockTypeOK, LoopArms, Callers
<1>5. Covered'
  BY <1>1, SameNeeds DEF ClockInv, Covered
<1>6. Timely'
  <2>1. SUFFICES ASSUME NEW k \in Hosts, Pending(k)', ptask # "off"
                 PROVE  time + 1 <= Bound(k)'
    BY <1>1 DEF Timely
  <2>2. Pending(k) /\ Bound(k)' = Bound(k) /\ Bound(k) \in Nat
    BY <1>1, <2>1, SameNeeds, BoundFacts DEF Pending, ClockInv
  <2>3. PICK t \in timers : t <= Bound(k)
    BY <1>1, <1>4, <2>1, <2>2 DEF ClockInv, Covered
  <2>4. QED
    BY <1>1, <2>2, <2>3
<1>7. QED
  BY <1>1, <1>2, <1>3, <1>5, <1>6 DEF ClockInv

----------------------------------------------------------------------------
(* The theorem.                                                            *)

\* The invariant holds in every state the clock reaches.
LEMMA ClockInductive == ClockSpec => []ClockInv
<1>1. ASSUME ClockInv, UNCHANGED clockVars
      PROVE  ClockInv'
  <2>1. UNCHANGED <<time, stock, tick, timers, permit, arming, ptask, lastCheck>>
    BY <1>1 DEF clockVars
  <2>2. ClockTypeOK' /\ TicksSleep' /\ LoopArms'
    BY <1>1, <2>1 DEF ClockInv, ClockTypeOK, TicksSleep, LoopArms
  <2>3. Covered' /\ Timely'
    BY <1>1, <2>1, SameNeeds DEF ClockInv, Covered, Timely
  <2>4. QED
    BY <1>1, <2>1, <2>2, <2>3 DEF ClockInv
<1>2. ClockInv /\ [ClockNext]_clockVars => ClockInv'
  BY <1>1, ReadTickInv, WriteTickInv, FireInv, WakeInv, ScanInv, SwitchPrefetchInv, StoreInv, StoreOnlyInv, AskInv,
     StaleInv, GiveUpInv, RemoveInv, ElapseInv
  DEF ClockNext
<1>3. QED
  BY <1>2, ClockInitial, PTL DEF ClockSpec

\* No wake-up is lost: as long as an expired entry that asked for one waits for
\* its scan, the time it asked for is not past or the last scan is at most two
\* minimal intervals ago, however calls of notify_after race for tick.
THEOREM ScanDueHolds == ClockSpec => []ScanDue
<1>1. ClockInv => ScanDue
  <2>1. SUFFICES ASSUME ClockInv, NEW k \in Hosts, Expired(k), stock[k].armed, ~stock[k].seen, ptask # "off"
                 PROVE  time <= Longer(stock[k].wake, lastCheck + 2 * MinInterval)
    BY DEF ScanDue
  <2>2. /\ stock[k] # NoHost /\ time > stock[k].until /\ time <= Bound(k)
        /\ time \in Nat /\ lastCheck + 2 * MinInterval \in Nat
    BY <2>1, ClockAssumption DEF Expired, ClockInv, ClockTypeOK, Timely, Pending
  <2>3. QED
    BY <2>1, <2>2, BoundFacts DEF ClockInv, Longer
<1>2. QED
  BY <1>1, ClockInductive, PTL

----------------------------------------------------------------------------
(* The services together.                                                  *)

\* The request loop, the connection limits, the cache file, the prefetch clock
\* and the log file share no state: a step of one leaves the others alone, so
\* what is proved of each holds where they run together.
THEOREM ServicesHold ==
  ServicesSpec => LoopSpec /\ LimitSpec /\ PersistSpec /\ ClockSpec /\ LogSpec
<1>1. ServicesInit => LoopInit /\ LimitInit /\ PersistInit /\ ClockInit /\ LogInit
  BY DEF ServicesInit
<1>2. [ServicesNext]_servicesVars =>
        /\ [LoopNext]_loopVars /\ [LimitNext]_limitVars /\ [PersistNext]_persistVars
        /\ [ClockNext]_clockVars /\ [LogNext]_logVars
  BY DEF ServicesNext, servicesVars
<1>3. QED
  BY <1>1, <1>2, PTL DEF ServicesSpec, LoopSpec, LimitSpec, PersistSpec, ClockSpec, LogSpec
=============================================================================
