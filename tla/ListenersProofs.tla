-------------------------- MODULE ListenersProofs --------------------------
(***************************************************************************)
(* The listeners across reloads, for any configurations, tasks and sockets. *)
(***************************************************************************)
EXTENDS MCServing, TLAPS

\* A task has a socket in hand exactly between serve and insert, and knows the
\* address it is for.
HandTimed ==
  \A p \in Procs :
    /\ hand[p] # NoSock <=> pc[p] \in {"dequeue", "insert"}
    /\ pc[p] \in {"dequeue", "insert", "failed"} => cur[p] \in Binds

\* What a task is about to shut down is not in its configuration.
GoneUnwanted == \A p \in Procs : pc[p] = "shut" => gone[p] \cap snap[p] = {}

\* A cancelled socket is open until its loop closes it, and one that an aborted
\* reload left is open and never cancelled.
DoomedOpen == doomed \cup orphans \subseteq Open /\ doomed \cap orphans = {}

ListenInv == TypeOK /\ NoGhost /\ HandsApart /\ HandTimed /\ GoneUnwanted /\ DoomedOpen

\* App::init has opened nothing yet.
LEMMA ListenInitial == Init => ListenInv
<1> SUFFICES ASSUME Init PROVE ListenInv
  OBVIOUS
<1>1. TypeOK
  BY BindAssumption, BoundAssumption DEF Init, TypeOK, Steps
<1>2. NoGhost /\ HandsApart
  BY DEF Init, NoGhost, HandsApart, Open
<1>3. HandTimed
  BY DEF Init, HandTimed
<1>4. GoneUnwanted /\ DoomedOpen
  BY DEF Init, GoneUnwanted, DoomedOpen
<1>5. QED
  BY <1>1, <1>2, <1>3, <1>4 DEF ListenInv

\* A step that touches neither sockets nor handles nor the registered
\* listeners keeps the invariant.
LEMMA Untouched ==
  ASSUME ListenInv, TypeOK', UNCHANGED <<owner, doomed, orphans, listeners, hand>>,
         \A p \in Procs :
           /\ pc'[p] \in {"dequeue", "insert"} <=> pc[p] \in {"dequeue", "insert"}
           /\ pc[p] \in {"dequeue", "insert"} => cur'[p] = cur[p]
           /\ pc'[p] = "failed" => cur'[p] \in Binds
           /\ pc'[p] = "shut" => gone'[p] \cap snap'[p] = {}
  PROVE  ListenInv'
<1>1. NoGhost'
  BY DEF ListenInv, NoGhost, Open
<1>2. HandsApart'
  BY DEF ListenInv, HandsApart, HandTimed
<1>3. HandTimed'
  BY DEF ListenInv, HandTimed
<1>4. GoneUnwanted' /\ DoomedOpen'
  BY DEF ListenInv, GoneUnwanted, DoomedOpen, Open
<1>5. QED
  BY <1>1, <1>2, <1>3, <1>4 DEF ListenInv

----------------------------------------------------------------------------
(* Actions that leave sockets, handles and listeners alone.                *)

\* Another program takes a port.
LEMMA OccupyKeeps == ASSUME ListenInv, NEW port \in Ports, Occupy(port) PROVE ListenInv'
<1>1. TypeOK'
  BY BindAssumption, BoundAssumption DEF Occupy, ListenInv, TypeOK, Goto, Steps, world, sockets, locals
<1>2. QED
  BY <1>1, Untouched DEF Occupy, ListenInv, TypeOK, HandTimed, GoneUnwanted, Goto, world, sockets, locals

\* Another program gives a port back.
LEMMA ReleaseKeeps == ASSUME ListenInv, NEW port \in Ports, Release(port) PROVE ListenInv'
<1>1. TypeOK'
  BY BindAssumption, BoundAssumption DEF Release, ListenInv, TypeOK, Goto, Steps, world, sockets, locals
<1>2. QED
  BY <1>1, Untouched DEF Release, ListenInv, TypeOK, HandTimed, GoneUnwanted, Goto, world, sockets, locals

\* A certificate or device goes missing or comes back.
LEMMA SpoilKeeps == ASSUME ListenInv, NEW b \in Fragile, Spoil(b) PROVE ListenInv'
<1>1. TypeOK'
  BY BindAssumption, BoundAssumption DEF Spoil, ListenInv, TypeOK, Goto, Steps, world, sockets, locals
<1>2. QED
  BY <1>1, Untouched DEF Spoil, ListenInv, TypeOK, HandTimed, GoneUnwanted, Goto, world, sockets, locals

\* The file on disk changes.
LEMMA EditFileKeeps == ASSUME ListenInv, NEW f \in Configs, EditFile(f) PROVE ListenInv'
<1>1. TypeOK'
  BY BindAssumption, BoundAssumption DEF EditFile, ListenInv, TypeOK, Goto, Steps, world, sockets, locals
<1>2. QED
  BY <1>1, Untouched DEF EditFile, ListenInv, TypeOK, HandTimed, GoneUnwanted, Goto, world, sockets, locals

\* A reload begins.
LEMMA ReloadStartKeeps == ASSUME ListenInv, NEW p \in Reloaders, p \in Procs, ReloadStart(p) PROVE ListenInv'
<1>1. TypeOK'
  BY BindAssumption, BoundAssumption DEF ReloadStart, ListenInv, TypeOK, Goto, Steps, world, sockets, locals
<1>2. QED
  BY <1>1, Untouched DEF ReloadStart, ListenInv, TypeOK, HandTimed, GoneUnwanted, Goto, world, sockets, locals

\* It reads the file.
LEMMA BuildConfigKeeps == ASSUME ListenInv, NEW p \in Procs, BuildConfig(p) PROVE ListenInv'
<1>1. TypeOK'
  BY BindAssumption, BoundAssumption DEF BuildConfig, ListenInv, TypeOK, Goto, Steps, world, sockets, locals
<1>2. QED
  BY <1>1, Untouched DEF BuildConfig, ListenInv, TypeOK, HandTimed, GoneUnwanted, Goto, world, sockets, locals

\* It replaces cfg.
LEMMA WriteConfigKeeps == ASSUME ListenInv, NEW p \in Procs, WriteConfig(p) PROVE ListenInv'
<1>1. TypeOK'
  BY BindAssumption, BoundAssumption DEF WriteConfig, ListenInv, TypeOK, Goto, Steps, world, sockets, locals
<1>2. QED
  BY <1>1, Untouched DEF WriteConfig, ListenInv, TypeOK, HandTimed, GoneUnwanted, Goto, world, sockets, locals

\* It reads cfg for the handler.
LEMMA ReadForHandlerKeeps == ASSUME ListenInv, NEW p \in Procs, ReadForHandler(p) PROVE ListenInv'
<1>1. TypeOK'
  BY BindAssumption, BoundAssumption DEF ReadForHandler, ListenInv, TypeOK, Goto, Steps, world, sockets, locals
<1>2. QED
  BY <1>1, Untouched DEF ReadForHandler, ListenInv, TypeOK, HandTimed, GoneUnwanted, Goto, world, sockets, locals

\* It replaces the handler.
LEMMA SwapHandlerKeeps == ASSUME ListenInv, NEW p \in Procs, SwapHandler(p) PROVE ListenInv'
<1>1. TypeOK'
  BY BindAssumption, BoundAssumption DEF SwapHandler, ListenInv, TypeOK, Goto, Steps, world, sockets, locals
<1>2. QED
  BY <1>1, Untouched DEF SwapHandler, ListenInv, TypeOK, HandTimed, GoneUnwanted, Goto, world, sockets, locals

\* A task takes its snapshot of cfg.
LEMMA ReadConfigKeeps == ASSUME ListenInv, NEW p \in Procs, ReadConfig(p) PROVE ListenInv'
<1>1. TypeOK'
  BY BindAssumption, BoundAssumption DEF ReadConfig, ListenInv, TypeOK, Goto, Steps, world, sockets, locals
<1>2. QED
  BY <1>1, Untouched DEF ReadConfig, ListenInv, TypeOK, HandTimed, GoneUnwanted, Goto, world, sockets, locals

\* A task compares it with the running listeners.
LEMMA DiffKeeps == ASSUME ListenInv, NEW p \in Procs, Diff(p) PROVE ListenInv'
<1>1. TypeOK'
  BY BindAssumption, BoundAssumption DEF Diff, ListenInv, TypeOK, Goto, Steps, world, sockets, locals, Surplus, Running
<1>2. QED
  BY <1>1, Untouched DEF Diff, ListenInv, TypeOK, HandTimed, GoneUnwanted, Goto, world, sockets, locals, Surplus, Running

\* serve fails.
LEMMA ServeErrKeeps == ASSUME ListenInv, NEW p \in Procs, NEW b \in Binds, ServeErr(p, b) PROVE ListenInv'
<1>1. TypeOK'
  BY BindAssumption, BoundAssumption DEF ServeErr, ListenInv, TypeOK, Goto, Steps, world, sockets, locals
<1>2. QED
  BY <1>1, Untouched DEF ServeErr, ListenInv, TypeOK, HandTimed, GoneUnwanted, Goto, world, sockets, locals

\* The heartbeat gives an address up.
LEMMA AbandonKeeps == ASSUME ListenInv, NEW b \in Binds, Abandon(b) PROVE ListenInv'
<1>1. TypeOK'
  <2>1. attempts' \in [Binds -> 0 .. MaxAttempts]
    BY BoundAssumption DEF Abandon, ListenInv, TypeOK
  <2>2. QED
    BY <2>1 DEF Abandon, ListenInv, TypeOK, Goto, Steps, world, sockets, locals
<1>2. QED
  BY <1>1, Untouched DEF Abandon, ListenInv, TypeOK, HandTimed, GoneUnwanted, Goto, world, sockets, locals

\* The loop over the addresses ends.
LEMMA LoopEndKeeps == ASSUME ListenInv, NEW p \in Procs, LoopEnd(p) PROVE ListenInv'
<1>1. TypeOK'
  BY BindAssumption, BoundAssumption DEF LoopEnd, ListenInv, TypeOK, Goto, Steps, world, sockets, locals
<1>2. QED
  BY <1>1, Untouched DEF LoopEnd, ListenInv, TypeOK, HandTimed, GoneUnwanted, Goto, world, sockets, locals

\* A bound address leaves the queue.
LEMMA DequeueKeeps == ASSUME ListenInv, NEW p \in Procs, Dequeue(p) PROVE ListenInv'
<1>1. TypeOK'
  <2>1. PICK b \in Binds : b = cur[p]
    BY DEF Dequeue, ListenInv, HandTimed
  <2>2. attempts' = [attempts EXCEPT ![b] = 0]
    BY <2>1 DEF Dequeue
  <2>3. attempts' \in [Binds -> 0 .. MaxAttempts]
    BY <2>2, BoundAssumption DEF ListenInv, TypeOK
  <2>4. QED
    BY <2>3 DEF Dequeue, ListenInv, TypeOK, Goto, Steps, world, sockets, locals
<1>2. QED
  BY <1>1, Untouched DEF Dequeue, ListenInv, TypeOK, HandTimed, GoneUnwanted, Goto, world, sockets, locals

\* A failure is counted.
LEMMA NoteFailureKeeps == ASSUME ListenInv, NEW p \in Procs, NoteFailure(p) PROVE ListenInv'
<1>1. TypeOK'
  <2>1. cur[p] \in Binds
    BY DEF NoteFailure, ListenInv, HandTimed
  <2>2. attempts' \in [Binds -> 0 .. MaxAttempts]
    BY <2>1, BoundAssumption DEF NoteFailure, ListenInv, TypeOK
  <2>3. QED
    BY <2>2 DEF NoteFailure, ListenInv, TypeOK, Goto, Steps, world, sockets, locals
<1>2. QED
  BY <1>1, Untouched DEF NoteFailure, ListenInv, TypeOK, HandTimed, GoneUnwanted, Goto, world, sockets, locals

\* The heartbeat takes up what is due.
LEMMA BeatStartKeeps == ASSUME ListenInv, NEW due \in SUBSET Queued, Beat \in Procs, BeatStart(due) PROVE ListenInv'
<1>1. TypeOK'
  BY BindAssumption, BoundAssumption DEF BeatStart, ListenInv, TypeOK, Goto, Steps, world, sockets, locals, Queued
<1>2. QED
  BY <1>1, Untouched DEF BeatStart, ListenInv, TypeOK, HandTimed, GoneUnwanted, Goto, world, sockets, locals, Queued

----------------------------------------------------------------------------
(* Actions on sockets.                                                     *)

\* A cancelled socket is closed: it is neither registered nor in a hand.
LEMMA CloseSocketKeeps == ASSUME ListenInv, NEW s \in Socks, CloseSocket(s) PROVE ListenInv'
<1>1. TypeOK'
  BY DEF CloseSocket, ListenInv, TypeOK, world, locals
<1>2. /\ s \in doomed /\ doomed' = doomed \ {s} /\ listeners' = listeners
      /\ UNCHANGED <<orphans, pc, snap, gone, cur, hand>>
      /\ \A x \in Socks : owner'[x] = IF x = s THEN NoBind ELSE owner[x]
  BY DEF CloseSocket, ListenInv, TypeOK, locals
<1>3. NoGhost'
  <2>1. \A x \in Open' : x \in Open /\ x # s /\ owner'[x] = owner[x]
    BY <1>2 DEF Open
  <2>2. \A b \in Binds : listeners[b] # NoSock => listeners[b] # s /\ listeners[b] \in Socks
    BY <1>2 DEF ListenInv, NoGhost, TypeOK
  <2>3. QED
    BY <1>2, <2>1, <2>2 DEF ListenInv, NoGhost
<1>4. HandsApart'
  <2>1. \A p \in Procs : hand[p] # NoSock => hand[p] # s /\ hand[p] \in Socks
    BY <1>2 DEF ListenInv, HandsApart, TypeOK
  <2>2. QED
    BY <1>2, <2>1 DEF ListenInv, HandsApart
<1>5. DoomedOpen'
  BY <1>2 DEF ListenInv, DoomedOpen, Open
<1>6. HandTimed' /\ GoneUnwanted'
  BY <1>2 DEF ListenInv, HandTimed, GoneUnwanted
<1>7. QED
  BY <1>1, <1>3, <1>4, <1>5, <1>6 DEF ListenInv

\* serve opens a socket nobody knows yet and puts it into the task's hand.
LEMMA ServeOkKeeps ==
  ASSUME ListenInv, NEW p \in Procs, NEW b \in Binds, NEW s \in Socks, ServeOk(p, b, s)
  PROVE  ListenInv'
<1>1. TypeOK'
  BY DEF ServeOk, ListenInv, TypeOK, Goto, Steps, world
<1>2. /\ s \notin Open /\ doomed' = doomed /\ listeners' = listeners /\ pc[p] = "serve"
      /\ UNCHANGED <<orphans, snap, gone>>
      /\ \A x \in Socks : owner'[x] = IF x = s THEN b ELSE owner[x]
      /\ \A q \in Procs : hand'[q] = IF q = p THEN s ELSE hand[q]
      /\ \A q \in Procs : cur'[q] = IF q = p THEN b ELSE cur[q]
      /\ \A q \in Procs : pc'[q] = IF q = p THEN "dequeue" ELSE pc[q]
  BY DEF ServeOk, ListenInv, TypeOK, Goto
<1>3. s \notin doomed \cup orphans /\ owner[s] = NoBind /\ s # NoSock /\ b # NoBind
  BY <1>2, BindAssumption DEF ListenInv, DoomedOpen, Open
<1>4. \A c \in Binds : listeners[c] # s
  <2>1. \A c \in Binds : listeners[c] # NoSock => owner[listeners[c]] \in Binds
    BY DEF ListenInv, NoGhost
  <2>2. QED
    BY <1>3, <2>1, BindAssumption
<1>5. hand[p] = NoSock /\ \A q \in Procs : hand[q] # s
  <2>1. \A q \in Procs : hand[q] # NoSock => owner[hand[q]] \in Binds
    BY DEF ListenInv, HandsApart, HandTimed
  <2>2. QED
    BY <1>2, <1>3, <2>1, BindAssumption DEF ListenInv, HandTimed
<1>6. NoGhost'
  <2>1. ASSUME NEW x \in Open' \ (doomed' \cup orphans')
        PROVE  listeners'[owner'[x]] = x \/ \E q \in Procs : hand'[q] = x
    <3>1. CASE x = s
      BY <1>2, <3>1
    <3>2. CASE x # s
      <4>1. x \in Open \ (doomed \cup orphans) /\ owner'[x] = owner[x]
        BY <1>2, <3>2 DEF Open
      <4>2. CASE listeners[owner[x]] = x
        BY <1>2, <4>1, <4>2
      <4>3. CASE \E q \in Procs : hand[q] = x
        <5>1. PICK q \in Procs : hand[q] = x
          BY <4>3
        <5>2. x # NoSock
          BY BindAssumption DEF Open
        <5>3. QED
          BY <1>2, <1>5, <5>1, <5>2
      <4>4. QED
        BY <4>1, <4>2, <4>3 DEF ListenInv, NoGhost
    <3>3. QED
      BY <3>1, <3>2
  <2>2. ASSUME NEW c \in Binds, listeners'[c] # NoSock
        PROVE  owner'[listeners'[c]] = c /\ listeners'[c] \notin doomed' \cup orphans'
    BY <1>2, <1>4, <2>2 DEF ListenInv, NoGhost, TypeOK
  <2>3. QED
    BY <2>1, <2>2 DEF NoGhost
<1>7. HandsApart'
  <2>1. ASSUME NEW q \in Procs, hand'[q] # NoSock
        PROVE  /\ owner'[hand'[q]] = cur'[q] /\ hand'[q] \notin doomed' \cup orphans'
               /\ listeners'[cur'[q]] # hand'[q]
               /\ \A r \in Procs \ {q} : hand'[r] # hand'[q]
    <3>1. CASE q = p
      BY <1>2, <1>3, <1>4, <1>5, <3>1
    <3>2. CASE q # p
      <4>1. hand[q] # NoSock /\ hand[q] \in Socks /\ hand[q] # s
        BY <1>2, <1>5, <2>1, <3>2 DEF ListenInv, TypeOK
      <4>2. /\ owner[hand[q]] = cur[q] /\ hand[q] \notin doomed \cup orphans
            /\ listeners[cur[q]] # hand[q] /\ \A r \in Procs \ {q} : hand[r] # hand[q]
        BY <4>1 DEF ListenInv, HandsApart
      <4>3. QED
        BY <1>2, <3>2, <4>1, <4>2
    <3>3. QED
      BY <3>1, <3>2
  <2>2. QED
    BY <2>1 DEF HandsApart
<1>8. HandTimed'
  BY <1>2, <1>3 DEF ListenInv, HandTimed
<1>9. GoneUnwanted' /\ DoomedOpen'
  BY <1>2, <1>3 DEF ListenInv, GoneUnwanted, DoomedOpen, Open, TypeOK
<1>10. QED
  BY <1>1, <1>6, <1>7, <1>8, <1>9 DEF ListenInv

\* insert registers the socket in hand and cancels the one it replaces.
LEMMA InsertListenerKeeps == ASSUME ListenInv, NEW p \in Procs, InsertListener(p) PROVE ListenInv'
<1>1. PICK b \in Binds : b = cur[p]
  BY DEF InsertListener, ListenInv, HandTimed
<1>2. PICK s \in Socks : s = hand[p]
  BY DEF InsertListener, ListenInv, HandTimed, TypeOK
<1>3. PICK old \in SUBSET Socks : old = Replaced(b)
  BY DEF Replaced, ListenInv, TypeOK
<1>4. /\ doomed' = doomed \cup old /\ owner' = owner /\ UNCHANGED <<orphans, snap, gone, cur>>
      /\ pc[p] = "insert"
      /\ \A c \in Binds : listeners'[c] = IF c = b THEN s ELSE listeners[c]
      /\ \A q \in Procs : hand'[q] = IF q = p THEN NoSock ELSE hand[q]
      /\ \A q \in Procs : pc'[q] = IF q = p THEN "serve" ELSE pc[q]
  BY <1>1, <1>2, <1>3 DEF InsertListener, ListenInv, TypeOK, Goto
<1>5. /\ s # NoSock /\ owner[s] = b /\ s \notin doomed \cup orphans /\ listeners[b] # s
      /\ \A q \in Procs \ {p} : hand[q] # s
  BY <1>1, <1>2, BindAssumption DEF ListenInv, HandsApart
<1>6. \A x \in old : x = listeners[b] /\ x # NoSock /\ x # s /\ owner[x] = b /\ x \notin orphans
  BY <1>3, <1>5 DEF Replaced, ListenInv, NoGhost
<1>7. TypeOK'
  <2>1. listeners' \in [Binds -> Socks \cup {NoSock}] /\ hand' \in [Procs -> Socks \cup {NoSock}]
    BY <1>1, <1>2 DEF InsertListener, ListenInv, TypeOK
  <2>2. doomed' \subseteq Socks
    BY <1>4 DEF ListenInv, TypeOK
  <2>3. QED
    BY <2>1, <2>2 DEF InsertListener, ListenInv, TypeOK, Goto, Steps, world
<1>8. NoGhost'
  <2>1. ASSUME NEW x \in Open' \ (doomed' \cup orphans')
        PROVE  listeners'[owner'[x]] = x \/ \E q \in Procs : hand'[q] = x
    <3>1. x \in Open \ (doomed \cup orphans) /\ x \notin old /\ owner[x] \in Binds
      BY <1>4 DEF Open, ListenInv, TypeOK
    <3>2. CASE x = s
      BY <1>4, <1>5, <3>2
    <3>3. CASE x # s /\ listeners[owner[x]] = x
      <4>1. x # NoSock
        BY BindAssumption DEF Open
      <4>2. owner[x] # b
        BY <1>3, <3>1, <3>3, <4>1 DEF Replaced
      <4>3. QED
        BY <1>4, <3>1, <3>3, <4>2
    <3>4. CASE x # s /\ \E q \in Procs : hand[q] = x
      BY <1>2, <1>4, <3>4
    <3>5. QED
      BY <3>1, <3>2, <3>3, <3>4 DEF ListenInv, NoGhost
  <2>2. ASSUME NEW c \in Binds, listeners'[c] # NoSock
        PROVE  owner'[listeners'[c]] = c /\ listeners'[c] \notin doomed' \cup orphans'
    <3>1. CASE c = b
      BY <1>4, <1>5, <1>6, <3>1
    <3>2. CASE c # b
      <4>1. listeners'[c] = listeners[c] /\ owner[listeners[c]] = c /\ listeners[c] \notin doomed \cup orphans
        BY <1>4, <2>2, <3>2 DEF ListenInv, NoGhost
      <4>2. listeners[c] \notin old
        BY <1>6, <3>2, <4>1
      <4>3. QED
        BY <1>4, <4>1, <4>2
    <3>3. QED
      BY <3>1, <3>2
  <2>3. QED
    BY <2>1, <2>2 DEF NoGhost
<1>9. HandsApart'
  <2>1. ASSUME NEW q \in Procs, hand'[q] # NoSock
        PROVE  /\ owner'[hand'[q]] = cur'[q] /\ hand'[q] \notin doomed' \cup orphans'
               /\ listeners'[cur'[q]] # hand'[q]
               /\ \A r \in Procs \ {q} : hand'[r] # hand'[q]
    <3>1. q # p /\ hand'[q] = hand[q] /\ hand[q] # NoSock /\ hand[q] # s
      BY <1>4, <1>5, <2>1
    <3>2. /\ owner[hand[q]] = cur[q] /\ hand[q] \notin doomed \cup orphans
          /\ listeners[cur[q]] # hand[q] /\ \A r \in Procs \ {q} : hand[r] # hand[q]
          /\ cur[q] \in Binds
      BY <3>1 DEF ListenInv, HandsApart, HandTimed
    <3>3. hand[q] \notin old
      BY <1>6, <3>2
    <3>4. QED
      BY <1>4, <3>1, <3>2, <3>3
  <2>2. QED
    BY <2>1 DEF HandsApart
<1>10. HandTimed'
  BY <1>4 DEF ListenInv, HandTimed
<1>11. GoneUnwanted' /\ DoomedOpen'
  <2>1. GoneUnwanted'
    BY <1>4 DEF ListenInv, GoneUnwanted
  <2>2. old \subseteq Open \ orphans
    BY <1>1, <1>6, BindAssumption DEF Open
  <2>3. QED
    BY <1>4, <2>1, <2>2 DEF ListenInv, DoomedOpen, Open
<1>12. QED
  BY <1>7, <1>8, <1>9, <1>10, <1>11 DEF ListenInv

\* The listeners a reload does not want are cancelled and leave the map.
LEMMA ShutGoneKeeps == ASSUME ListenInv, NEW p \in Procs, ShutGone(p) PROVE ListenInv'
<1>1. PICK out \in SUBSET Binds : out = gone[p]
  BY DEF ListenInv, TypeOK
<1>2. PICK old \in SUBSET Socks : old = {listeners[b] : b \in out \cap Running}
  <2>1. \A b \in Running : listeners[b] \in Socks
    BY DEF Running, ListenInv, TypeOK
  <2>2. {listeners[b] : b \in out \cap Running} \in SUBSET Socks
    BY <2>1
  <2>3. QED
    BY <2>2
<1>3. /\ doomed' = doomed \cup old /\ UNCHANGED <<owner, orphans, snap, cur, hand>> /\ pc[p] = "shut"
      /\ \A b \in Binds : listeners'[b] = IF b \in out THEN NoSock ELSE listeners[b]
      /\ \A q \in Procs : pc'[q] = IF q = p THEN "serve" ELSE pc[q]
      /\ \A q \in Procs : gone'[q] = IF q = p THEN {} ELSE gone[q]
  BY <1>1, <1>2 DEF ShutGone, ListenInv, TypeOK, Goto
<1>4. \A x \in old : x # NoSock /\ owner[x] \in out /\ listeners[owner[x]] = x /\ x \notin orphans
  BY <1>2 DEF Running, ListenInv, NoGhost
<1>5. TypeOK'
  <2>1. listeners' \in [Binds -> Socks \cup {NoSock}]
    BY DEF ShutGone, ListenInv, TypeOK
  <2>2. doomed' \subseteq Socks
    BY <1>3 DEF ListenInv, TypeOK
  <2>3. QED
    BY <2>1, <2>2 DEF ShutGone, ListenInv, TypeOK, Goto, Steps, world
<1>6. NoGhost'
  <2>1. ASSUME NEW x \in Open' \ (doomed' \cup orphans')
        PROVE  listeners'[owner'[x]] = x \/ \E q \in Procs : hand'[q] = x
    <3>1. x \in Open \ (doomed \cup orphans) /\ x \notin old /\ owner[x] \in Binds /\ x # NoSock
      BY <1>3, BindAssumption DEF Open, ListenInv, TypeOK
    <3>2. CASE listeners[owner[x]] = x
      <4>1. owner[x] \notin out
        BY <1>2, <3>1, <3>2 DEF Running
      <4>2. QED
        BY <1>3, <3>1, <3>2, <4>1
    <3>3. CASE \E q \in Procs : hand[q] = x
      BY <1>3, <3>3
    <3>4. QED
      BY <3>1, <3>2, <3>3 DEF ListenInv, NoGhost
  <2>2. ASSUME NEW c \in Binds, listeners'[c] # NoSock
        PROVE  owner'[listeners'[c]] = c /\ listeners'[c] \notin doomed' \cup orphans'
    <3>1. c \notin out /\ listeners'[c] = listeners[c]
      BY <1>3, <2>2
    <3>2. owner[listeners[c]] = c /\ listeners[c] \notin doomed \cup orphans
      BY <2>2, <3>1 DEF ListenInv, NoGhost
    <3>3. QED
      BY <1>3, <1>4, <3>1, <3>2
  <2>3. QED
    BY <2>1, <2>2 DEF NoGhost
<1>7. HandsApart'
  <2>1. ASSUME NEW q \in Procs, hand'[q] # NoSock
        PROVE  /\ owner'[hand'[q]] = cur'[q] /\ hand'[q] \notin doomed' \cup orphans'
               /\ listeners'[cur'[q]] # hand'[q]
               /\ \A r \in Procs \ {q} : hand'[r] # hand'[q]
    <3>1. /\ owner[hand[q]] = cur[q] /\ hand[q] \notin doomed \cup orphans
          /\ listeners[cur[q]] # hand[q] /\ \A r \in Procs \ {q} : hand[r] # hand[q]
          /\ cur[q] \in Binds
      BY <1>3, <2>1 DEF ListenInv, HandsApart, HandTimed
    <3>2. hand[q] \notin old
      BY <1>4, <3>1
    <3>3. QED
      BY <1>3, <2>1, <3>1, <3>2
  <2>2. QED
    BY <2>1 DEF HandsApart
<1>8. HandTimed'
  BY <1>3 DEF ListenInv, HandTimed
<1>9. GoneUnwanted' /\ DoomedOpen'
  <2>1. GoneUnwanted'
    BY <1>3 DEF ListenInv, GoneUnwanted
  <2>2. old \subseteq Open \ orphans
    BY <1>4, BindAssumption DEF Open
  <2>3. QED
    BY <1>3, <2>1, <2>2 DEF ListenInv, DoomedOpen, Open
<1>10. QED
  BY <1>5, <1>6, <1>7, <1>8, <1>9 DEF ListenInv

\* A dropped reload leaves the socket it had in hand open; the hand is empty.
LEMMA AbortReloadKeeps == ASSUME ListenInv, NEW p \in Procs, AbortReload(p) PROVE ListenInv'
<1>1. PICK left \in SUBSET Socks : left = DroppedHandle(p)
  BY DEF DroppedHandle, ListenInv, TypeOK
<1>2. /\ orphans' = orphans \cup left /\ UNCHANGED <<owner, doomed, listeners, snap>>
      /\ \A q \in Procs : hand'[q] = IF q = p THEN NoSock ELSE hand[q]
      /\ \A q \in Procs : cur'[q] = IF q = p THEN NoBind ELSE cur[q]
      /\ \A q \in Procs : gone'[q] = IF q = p THEN {} ELSE gone[q]
      /\ \A q \in Procs : pc'[q] = IF q = p THEN "idle" ELSE pc[q]
  BY <1>1 DEF AbortReload, ListenInv, TypeOK, Goto
<1>3. \A x \in left : /\ x = hand[p] /\ x # NoSock /\ x \notin doomed /\ owner[x] = cur[p]
                        /\ cur[p] \in Binds /\ listeners[cur[p]] # x
                        /\ \A q \in Procs \ {p} : hand[q] # x
  BY <1>1 DEF DroppedHandle, ListenInv, HandsApart, HandTimed
<1>4. TypeOK'
  <2>1. orphans' \subseteq Socks
    BY <1>2 DEF ListenInv, TypeOK
  <2>2. QED
    BY <2>1 DEF AbortReload, ListenInv, TypeOK, Goto, Steps, world
<1>5. NoGhost'
  <2>1. ASSUME NEW x \in Open' \ (doomed' \cup orphans')
        PROVE  listeners'[owner'[x]] = x \/ \E q \in Procs : hand'[q] = x
    <3>1. x \in Open \ (doomed \cup orphans) /\ x \notin left /\ x # NoSock
      BY <1>2, BindAssumption DEF Open
    <3>2. hand[p] # x
      BY <1>1, <3>1 DEF DroppedHandle
    <3>3. QED
      BY <1>2, <3>1, <3>2 DEF ListenInv, NoGhost
  <2>2. ASSUME NEW c \in Binds, listeners'[c] # NoSock
        PROVE  owner'[listeners'[c]] = c /\ listeners'[c] \notin doomed' \cup orphans'
    <3>1. owner[listeners[c]] = c /\ listeners[c] \notin doomed \cup orphans
      BY <1>2, <2>2 DEF ListenInv, NoGhost
    <3>2. listeners[c] \notin left
      BY <1>3, <3>1
    <3>3. QED
      BY <1>2, <3>1, <3>2
  <2>3. QED
    BY <2>1, <2>2 DEF NoGhost
<1>6. HandsApart'
  <2>1. ASSUME NEW q \in Procs, hand'[q] # NoSock
        PROVE  /\ owner'[hand'[q]] = cur'[q] /\ hand'[q] \notin doomed' \cup orphans'
               /\ listeners'[cur'[q]] # hand'[q]
               /\ \A r \in Procs \ {q} : hand'[r] # hand'[q]
    <3>1. q # p /\ hand'[q] = hand[q] /\ cur'[q] = cur[q] /\ hand[q] # NoSock
      BY <1>2, <2>1
    <3>2. /\ owner[hand[q]] = cur[q] /\ hand[q] \notin doomed \cup orphans
          /\ listeners[cur[q]] # hand[q] /\ \A r \in Procs \ {q} : hand[r] # hand[q]
      BY <3>1 DEF ListenInv, HandsApart
    <3>3. QED
      BY <1>2, <1>3, <3>1, <3>2
  <2>2. QED
    BY <2>1 DEF HandsApart
<1>7. HandTimed'
  BY <1>2 DEF ListenInv, HandTimed
<1>8. GoneUnwanted'
  BY <1>2 DEF ListenInv, GoneUnwanted
<1>9. DoomedOpen'
  <2>1. left \subseteq Open \ doomed
    BY <1>3, BindAssumption DEF Open
  <2>2. QED
    BY <1>2, <2>1 DEF ListenInv, DoomedOpen, Open
<1>10. QED
  BY <1>4, <1>5, <1>6, <1>7, <1>8, <1>9 DEF ListenInv

----------------------------------------------------------------------------

\* What reloads, startup and heartbeat have in common.
LEMMA StepKeeps == ASSUME ListenInv, NEW p \in Procs, Step(p) PROVE ListenInv'
BY ReadConfigKeeps, LoopEndKeeps, DequeueKeeps, InsertListenerKeeps, NoteFailureKeeps,
   ServeErrKeeps, ServeOkKeeps DEF Step

\* Every step keeps the invariant.
LEMMA ListenInductive == ListenInv /\ [Next]_vars => ListenInv'
<1> SUFFICES ASSUME ListenInv, [Next]_vars PROVE ListenInv'
  OBVIOUS
<1>1. Boot \in Procs /\ Beat \in Procs /\ Reloaders \subseteq Procs
  BY DEF Procs
<1>2. CASE UNCHANGED vars
  <2>1. TypeOK'
    BY <1>2 DEF vars, ListenInv, TypeOK
  <2>2. QED
    BY <1>2, <2>1, Untouched DEF vars, ListenInv, HandTimed, GoneUnwanted
<1>3. CASE World
  BY <1>3, OccupyKeeps, ReleaseKeeps, SpoilKeeps, EditFileKeeps, CloseSocketKeeps DEF World
<1>4. CASE \E r \in Reloaders : ReloadStart(r) \/ ReloadStep(r) \/ AbortReload(r)
  <2>1. PICK r \in Reloaders : ReloadStart(r) \/ ReloadStep(r) \/ AbortReload(r)
    BY <1>4
  <2>2. r \in Procs
    BY <1>1
  <2>3. CASE ReloadStart(r)
    BY <2>2, <2>3, ReloadStartKeeps
  <2>4. CASE ReloadStep(r)
    BY <2>2, <2>4, BuildConfigKeeps, WriteConfigKeeps, ReadForHandlerKeeps, SwapHandlerKeeps,
       DiffKeeps, ShutGoneKeeps, StepKeeps DEF ReloadStep
  <2>5. QED
    BY <2>1, <2>2, <2>3, <2>4, AbortReloadKeeps
<1>5. CASE \E due \in SUBSET Queued : BeatStart(due)
  <2>1. PICK due : due \in SUBSET Queued /\ BeatStart(due)
    BY <1>5
  <2>2. QED
    BY <1>1, <2>1, BeatStartKeeps
<1>6. CASE Step(Boot) \/ Diff(Boot) \/ ShutGone(Boot)
  BY <1>1, <1>6, StepKeeps, DiffKeeps, ShutGoneKeeps
<1>7. CASE BeatStep
  BY <1>1, <1>7, StepKeeps, AbandonKeeps DEF BeatStep
<1>8. QED
  BY <1>2, <1>3, <1>4, <1>5, <1>6, <1>7 DEF Next

\* The invariant holds in every behaviour.
LEMMA ListenAlways == Spec => []ListenInv
BY ListenInitial, ListenInductive, PTL DEF Spec

\* shutdown is only ever called on a handle that exists, and no task works from
\* half a configuration (reload_inner, update_listeners, retry_pending_binds_at).
THEOREM ListenTypeCorrect == Spec => []TypeOK
<1>1. ListenInv => TypeOK
  BY DEF ListenInv
<1>2. QED
  BY <1>1, ListenAlways, PTL

\* An open socket that nobody knows is always one that a reload had in hand when
\* its connection was dropped; no other reload, retry or interleaving of them
\* leaves one (serve, insert, shutdown in app.rs).
THEOREM NoGhostHolds == Spec => []NoGhost
<1>1. ListenInv => NoGhost
  BY DEF ListenInv
<1>2. QED
  BY <1>1, ListenAlways, PTL

\* A listener leaves the map only because the configuration of the task that
\* closes it has no such bind, or because a newer socket replaces it
\* (update_listeners, insert).
THEOREM ClosedForCauseHolds == Spec => ClosedForCause
<1> DEFINE Cause ==
      \A b \in Running :
        listeners'[b] # listeners[b] =>
          \E p \in Procs :
            \/ pc[p] = "shut" /\ b \notin snap[p]
            \/ hand[p] # NoSock /\ listeners'[b] = hand[p]
<1>1. ListenInv /\ [Next]_vars => [Cause]_vars
  <2> SUFFICES ASSUME ListenInv, Next PROVE Cause
    OBVIOUS
  <2>1. Boot \in Procs /\ Beat \in Procs /\ Reloaders \subseteq Procs
    BY DEF Procs
  <2>2. ASSUME NEW p \in Procs, ShutGone(p) PROVE Cause
    <3>1. pc[p] = "shut" /\ gone[p] \cap snap[p] = {}
      BY <2>2 DEF ShutGone, ListenInv, GoneUnwanted
    <3>2. \A b \in Binds : b \notin gone[p] => listeners'[b] = listeners[b]
      BY <2>2 DEF ShutGone
    <3>3. QED
      BY <3>1, <3>2 DEF Running
  <2>3. ASSUME NEW p \in Procs, InsertListener(p) PROVE Cause
    <3>1. hand[p] # NoSock
      BY <2>3 DEF InsertListener, ListenInv, HandTimed
    <3>2. \A b \in Binds : listeners'[b] = listeners[b] \/ listeners'[b] = hand[p]
      BY <2>3 DEF InsertListener, ListenInv, TypeOK
    <3>3. QED
      BY <3>1, <3>2 DEF Running
  <2>4. ASSUME listeners' = listeners PROVE Cause
    BY <2>4
  <2>5. ASSUME NEW p \in Procs, Step(p) PROVE Cause
    <3>1. InsertListener(p) \/ listeners' = listeners
      BY <2>5 DEF Step, ReadConfig, LoopEnd, Dequeue, NoteFailure, ServeErr, ServeOk
    <3>2. QED
      BY <2>3, <2>4, <3>1
  <2>6. CASE World
    <3>1. listeners' = listeners
      BY <2>6 DEF World, Occupy, Release, Spoil, EditFile, CloseSocket
    <3>2. QED
      BY <2>4, <3>1
  <2>7. CASE \E r \in Reloaders : ReloadStart(r) \/ ReloadStep(r) \/ AbortReload(r)
    <3>1. PICK r \in Procs : ReloadStart(r) \/ ReloadStep(r) \/ AbortReload(r)
      BY <2>1, <2>7
    <3>2. ShutGone(r) \/ Step(r) \/ listeners' = listeners
      BY <3>1 DEF ReloadStep, ReloadStart, AbortReload, BuildConfig, WriteConfig, ReadForHandler, SwapHandler, Diff
    <3>3. QED
      BY <2>2, <2>4, <2>5, <3>2
  <2>8. CASE \E due \in SUBSET Queued : BeatStart(due)
    <3>1. listeners' = listeners
      BY <2>8 DEF BeatStart
    <3>2. QED
      BY <2>4, <3>1
  <2>9. CASE Step(Boot) \/ Diff(Boot) \/ ShutGone(Boot)
    <3>1. Step(Boot) \/ ShutGone(Boot) \/ listeners' = listeners
      BY <2>9 DEF Diff
    <3>2. QED
      BY <2>1, <2>2, <2>4, <2>5, <3>1
  <2>10. CASE BeatStep
    <3>1. Step(Beat) \/ listeners' = listeners
      BY <2>10 DEF BeatStep, Abandon
    <3>2. QED
      BY <2>1, <2>4, <2>5, <3>1
  <2>11. QED
    BY <2>6, <2>7, <2>8, <2>9, <2>10 DEF Next
<1>2. [][Cause]_vars => ClosedForCause
  BY DEF ClosedForCause
<1>3. QED
  BY <1>1, <1>2, ListenAlways, PTL DEF Spec

\* The main loop opens listeners and serves requests, which share no state: a
\* step of one leaves the other alone, so what is proved of each holds of the
\* server that runs both.
THEOREM ServingHold == ServingSpec => Spec /\ LoopSpec
<1>1. ServingInit => Init /\ LoopInit
  BY DEF ServingInit
<1>2. [OfListeners(Next) \/ OfRequests(LoopNext)]_servingVars => [Next]_vars /\ [LoopNext]_loopVars
  BY DEF OfListeners, OfRequests, servingVars
<1>3. QED
  BY <1>1, <1>2, PTL DEF ServingSpec, Spec, LoopSpec
=============================================================================
