----------------------------- MODULE Listeners -----------------------------
(***************************************************************************)
(* Listening sockets across configuration reloads (app.rs): reload_inner   *)
(* swaps the configuration, rebuilds the handler and diffs the listeners;  *)
(* an address that cannot be bound goes to the bind_retry queue, which the *)
(* one-second heartbeat of the main loop works off.  Reloads (API calls,   *)
(* the -interval task) and the heartbeat are separate tasks that share     *)
(* cfg, listeners and bind_retry; every lock acquisition is one step.  A   *)
(* reload that the API serves runs inside the task of its connection and   *)
(* is dropped with it at whatever await it has reached.                    *)
(***************************************************************************)
EXTENDS Naturals, FiniteSets

CONSTANTS
  Binds,        \* BindAddrConfig values: address, transport and options
  Port,         \* the transport and socket address of a bind
  Shared,       \* the ports that SO_REUSEPORT lets two sockets share (UDP)
  Unsafe,       \* binds that check_exposure refuses
  Configs,      \* the sets of binds a configuration file may hold
  Start,        \* the configuration at startup
  Reloaders,    \* tasks that call reload
  Boot,         \* App::init at startup
  Beat,         \* the heartbeat branch of the main loop
  Fragile,      \* binds that serve may refuse whatever the port does
  Socks,        \* the descriptors there are for sockets (bound)
  NoSock, NoBind,
  MaxAttempts,  \* bound on a BindRetry's attempts
  MaxReloads    \* bound on the number of reloads

Procs == Reloaders \cup {Boot, Beat}
Ports == {Port[b] : b \in Binds}

ASSUME BindAssumption ==
  /\ Configs \subseteq SUBSET Binds /\ Start \in Configs
  /\ Unsafe \subseteq Binds /\ Fragile \subseteq Binds
  /\ NoBind \notin Binds /\ NoSock \notin Socks

ASSUME ProcAssumption == {Boot, Beat} \cap Reloaders = {} /\ Boot # Beat

ASSUME BoundAssumption == MaxAttempts \in Nat \ {0} /\ MaxReloads \in Nat

VARIABLES
  file,       \* the configuration on disk
  reloads,    \* reloads begun
  busy,       \* ports another program occupies
  broken,     \* binds whose certificate, key or device serve cannot use now
  cfg,        \* AppState.cfg
  handler,    \* the configuration mw_handler was built from
  owner,      \* the bind each open socket was opened for
  doomed,     \* sockets whose token is cancelled and that are about to close
  orphans,    \* sockets that aborted reloads left behind (history)
  listeners,  \* AppState.listeners: the socket of each running bind
  attempts,   \* AppState.bind_retry: failures of a queued bind, 0 if not queued
  pc,         \* where each task is
  snap,       \* the configuration a task has read or built
  todo,       \* new_bind_addrs, or the heartbeat's due list
  gone,       \* the reload's shutdown list
  cur,        \* the bind_addr of the loop body
  hand        \* the ServerHandle serve returned, not inserted yet

world == <<file, reloads, busy, broken>>
sockets == <<owner, doomed, orphans>>
locals == <<pc, snap, todo, gone, cur, hand>>
vars == <<file, reloads, busy, broken, cfg, handler, owner, doomed, orphans, listeners, attempts,
          pc, snap, todo, gone, cur, hand>>

Steps == {"idle", "build", "write", "mwread", "mwswap", "cfg", "diff", "shut",
          "serve", "dequeue", "insert", "failed"}

\* App::init is about to open the listeners of the configuration at startup;
\* other programs may hold some of the ports.
Init ==
  /\ file = Start /\ cfg = Start /\ handler = Start
  /\ reloads = 0
  /\ busy \in SUBSET Ports /\ broken = {}
  /\ owner = [s \in Socks |-> NoBind]
  /\ doomed = {} /\ orphans = {}
  /\ listeners = [b \in Binds |-> NoSock]
  /\ attempts = [b \in Binds |-> 0]
  /\ pc = [p \in Procs |-> IF p = Boot THEN "cfg" ELSE "idle"]
  /\ snap = [p \in Procs |-> Start]
  /\ todo = [p \in Procs |-> {}]
  /\ gone = [p \in Procs |-> {}]
  /\ cur = [p \in Procs |-> NoBind]
  /\ hand = [p \in Procs |-> NoSock]

----------------------------------------------------------------------------
(* The operating system.                                                   *)

Open == {s \in Socks : owner[s] # NoBind}

\* bind(2): a descriptor is left, and the port is free, or shared and only
\* ours.  The sockets in mine are left out of account.
Bindable(b, mine) ==
  /\ Open \ mine # Socks
  /\ Port[b] \notin busy
  /\ Port[b] \in Shared \/ \A s \in Open \ mine : Port[owner[s]] # Port[b]

\* shutdown cancels the token; the accept loop leaves and closes the socket.
CloseSocket(s) ==
  /\ s \in doomed
  /\ doomed' = doomed \ {s}
  /\ owner' = [owner EXCEPT ![s] = NoBind]
  /\ UNCHANGED <<world, cfg, handler, orphans, listeners, attempts, locals>>

\* Another program takes a free port or gives one back.
Occupy(port) ==
  /\ port \notin busy
  /\ \A s \in Open : Port[owner[s]] # port
  /\ busy' = busy \cup {port}
  /\ UNCHANGED <<file, reloads, broken, cfg, handler, sockets, listeners, attempts, locals>>

Release(port) ==
  /\ port \in busy
  /\ busy' = busy \ {port}
  /\ UNCHANGED <<file, reloads, broken, cfg, handler, sockets, listeners, attempts, locals>>

\* A certificate, key or device goes missing or comes back.
Spoil(b) ==
  /\ broken' = IF b \in broken THEN broken \ {b} ELSE broken \cup {b}
  /\ UNCHANGED <<file, reloads, busy, cfg, handler, sockets, listeners, attempts, locals>>

EditFile(f) ==
  /\ file # f
  /\ file' = f
  /\ UNCHANGED <<reloads, busy, broken, cfg, handler, sockets, listeners, attempts, locals>>

----------------------------------------------------------------------------
(* reload_inner.                                                           *)

Goto(p, l) == pc' = [pc EXCEPT ![p] = l]

\* A reload comes through an API listener App::init has opened, or later from
\* the -interval task.
ReloadStart(r) ==
  /\ pc[r] = "idle" /\ reloads < MaxReloads
  /\ pc[Boot] \notin {"cfg", "diff", "shut"}
  /\ reloads' = reloads + 1
  /\ Goto(r, "build")
  /\ UNCHANGED <<file, busy, broken, cfg, handler, sockets, listeners, attempts, snap, todo, gone, cur, hand>>

\* The blocking build reads the file; a file that does not parse ends the reload.
BuildConfig(r) ==
  /\ pc[r] = "build"
  /\ snap' = [snap EXCEPT ![r] = file]
  /\ \/ Goto(r, "write")
     \/ Goto(r, "idle")
  /\ UNCHANGED <<world, cfg, handler, sockets, listeners, attempts, todo, gone, cur, hand>>

WriteConfig(r) ==
  /\ pc[r] = "write"
  /\ cfg' = snap[r]
  /\ Goto(r, "mwread")
  /\ UNCHANGED <<world, handler, sockets, listeners, attempts, snap, todo, gone, cur, hand>>

\* update_middleware_handler reads cfg before it waits for the cache lock.
ReadForHandler(r) ==
  /\ pc[r] = "mwread"
  /\ snap' = [snap EXCEPT ![r] = cfg]
  /\ Goto(r, "mwswap")
  /\ UNCHANGED <<world, cfg, handler, sockets, listeners, attempts, todo, gone, cur, hand>>

SwapHandler(r) ==
  /\ pc[r] = "mwswap"
  /\ handler' = snap[r]
  /\ Goto(r, "cfg")
  /\ UNCHANGED <<world, cfg, sockets, listeners, attempts, snap, todo, gone, cur, hand>>

\* Mutant: the heartbeat keeps the configuration it was started with.
ReadConfigOnce(p) ==
  /\ pc[p] = "cfg"
  /\ snap' = IF p = Beat THEN snap ELSE [snap EXCEPT ![p] = cfg]
  /\ Goto(p, IF p = Beat THEN "serve" ELSE "diff")
  /\ UNCHANGED <<world, cfg, handler, sockets, listeners, attempts, todo, gone, cur, hand>>

\* update_listeners and retry_pending_binds_at both work from a snapshot.
ReadConfig(p) ==
  /\ pc[p] = "cfg"
  /\ snap' = [snap EXCEPT ![p] = cfg]
  /\ Goto(p, IF p = Beat THEN "serve" ELSE "diff")
  /\ UNCHANGED <<world, cfg, handler, sockets, listeners, attempts, todo, gone, cur, hand>>

Running == {b \in Binds : listeners[b] # NoSock}

\* Mutant: every running listener is closed and opened again.
SurplusAll(p) == Running

\* Running listeners the task's configuration no longer has.
Surplus(p) == Running \ snap[p]

Diff(r) ==
  /\ pc[r] = "diff"
  /\ todo' = [todo EXCEPT ![r] = (snap[r] \ Running) \ Unsafe]
  /\ gone' = [gone EXCEPT ![r] = Surplus(r)]
  /\ Goto(r, "shut")
  /\ UNCHANGED <<world, cfg, handler, sockets, listeners, attempts, snap, cur, hand>>

ShutGone(r) ==
  /\ pc[r] = "shut"
  /\ listeners' = [b \in Binds |-> IF b \in gone[r] THEN NoSock ELSE listeners[b]]
  /\ doomed' = doomed \cup {listeners[b] : b \in gone[r] \cap Running}
  /\ gone' = [gone EXCEPT ![r] = {}]
  /\ Goto(r, "serve")
  /\ UNCHANGED <<world, cfg, handler, owner, orphans, attempts, snap, todo, cur, hand>>

\* The ServerHandle a task drops: its token is not cancelled by that, and the
\* accept loop serve has spawned goes on.
DroppedHandle(r) == {hand[r]} \ {NoSock}

\* The connection of an API reload ends (the client leaves, its time is up, or
\* its listener is the one the reload shuts down): the task is dropped at the
\* await it has reached.
AbortReload(r) ==
  /\ pc[r] # "idle"
  /\ orphans' = orphans \cup DroppedHandle(r)
  /\ hand' = [hand EXCEPT ![r] = NoSock]
  /\ todo' = [todo EXCEPT ![r] = {}]
  /\ gone' = [gone EXCEPT ![r] = {}]
  /\ cur' = [cur EXCEPT ![r] = NoBind]
  /\ Goto(r, "idle")
  /\ UNCHANGED <<world, cfg, handler, owner, doomed, listeners, attempts, snap>>

----------------------------------------------------------------------------
(* The loop over the addresses, shared by reload and heartbeat.            *)

\* The heartbeat gives up an address its snapshot no longer wants.
Wanted(p, b) == p = Beat => b \in snap[p]

\* server::serve loads the certificate, opens the socket and spawns its loop,
\* or returns an error.
ServeOk(p, b, s) ==
  /\ pc[p] = "serve" /\ b \in todo[p] /\ Wanted(p, b)
  /\ b \notin broken /\ Bindable(b, {}) /\ s \notin Open
  /\ owner' = [owner EXCEPT ![s] = b]
  /\ hand' = [hand EXCEPT ![p] = s]
  /\ cur' = [cur EXCEPT ![p] = b]
  /\ todo' = [todo EXCEPT ![p] = @ \ {b}]
  /\ Goto(p, "dequeue")
  /\ UNCHANGED <<world, cfg, handler, doomed, orphans, listeners, attempts, snap, gone>>

ServeErr(p, b) ==
  /\ pc[p] = "serve" /\ b \in todo[p] /\ Wanted(p, b)
  /\ b \in broken \/ ~Bindable(b, {})
  /\ cur' = [cur EXCEPT ![p] = b]
  /\ todo' = [todo EXCEPT ![p] = @ \ {b}]
  /\ Goto(p, "failed")
  /\ UNCHANGED <<world, cfg, handler, sockets, listeners, attempts, snap, gone, hand>>

Abandon(b) ==
  /\ pc[Beat] = "serve" /\ b \in todo[Beat] /\ ~Wanted(Beat, b)
  /\ attempts' = [attempts EXCEPT ![b] = 0]
  /\ todo' = [todo EXCEPT ![Beat] = @ \ {b}]
  /\ UNCHANGED <<world, cfg, handler, sockets, listeners, pc, snap, gone, cur, hand>>

LoopEnd(p) ==
  /\ pc[p] = "serve" /\ todo[p] = {}
  /\ cur' = [cur EXCEPT ![p] = NoBind]
  /\ Goto(p, "idle")
  /\ UNCHANGED <<world, cfg, handler, sockets, listeners, attempts, snap, todo, gone, hand>>

\* A bound address leaves the queue first ...
Dequeue(p) ==
  /\ pc[p] = "dequeue"
  /\ attempts' = [attempts EXCEPT ![cur[p]] = 0]
  /\ Goto(p, "insert")
  /\ UNCHANGED <<world, cfg, handler, sockets, listeners, snap, todo, gone, cur, hand>>

\* Mutant: the handle that insert replaces is dropped without a shutdown.
NoneReplaced(b) == {}

\* Mutant: the answer of insert is taken for a handle even if there was none.
ReplacedAny(b) == {listeners[b]}

\* The handle that insert returns, which is shut down.
Replaced(b) == {listeners[b]} \ {NoSock}

\* ... and enters the listeners then.
InsertListener(p) ==
  /\ pc[p] = "insert"
  /\ listeners' = [listeners EXCEPT ![cur[p]] = hand[p]]
  /\ doomed' = doomed \cup Replaced(cur[p])
  /\ hand' = [hand EXCEPT ![p] = NoSock]
  /\ Goto(p, "serve")
  /\ UNCHANGED <<world, cfg, handler, owner, orphans, attempts, snap, todo, gone, cur>>

\* schedule_bind_retry queues the address; the heartbeat only counts a failure
\* of one that is still queued.
Retried(p, b) == p = Beat => attempts[b] > 0

NoteFailure(p) ==
  /\ pc[p] = "failed"
  /\ attempts' = IF Retried(p, cur[p]) /\ attempts[cur[p]] < MaxAttempts
                 THEN [attempts EXCEPT ![cur[p]] = @ + 1] ELSE attempts
  /\ Goto(p, "serve")
  /\ UNCHANGED <<world, cfg, handler, sockets, listeners, snap, todo, gone, cur, hand>>

\* A tick of the heartbeat that finds addresses due.  How long a failure count
\* makes an address wait is left open: any of the queued ones may be due.
Queued == {b \in Binds : attempts[b] > 0}

BeatStart(due) ==
  /\ pc[Boot] = "idle" /\ pc[Beat] = "idle"
  /\ due # {}
  /\ todo' = [todo EXCEPT ![Beat] = due]
  /\ Goto(Beat, "cfg")
  /\ UNCHANGED <<world, cfg, handler, sockets, listeners, attempts, snap, gone, cur, hand>>

----------------------------------------------------------------------------

Step(p) ==
  \/ ReadConfig(p) \/ LoopEnd(p) \/ Dequeue(p) \/ InsertListener(p) \/ NoteFailure(p)
  \/ \E b \in Binds : ServeErr(p, b) \/ \E s \in Socks : ServeOk(p, b, s)

ReloadStep(r) ==
  \/ BuildConfig(r) \/ WriteConfig(r) \/ ReadForHandler(r) \/ SwapHandler(r)
  \/ Diff(r) \/ ShutGone(r) \/ Step(r)

BeatStep == Step(Beat) \/ \E b \in Binds : Abandon(b)

World ==
  \/ \E port \in Ports : Occupy(port) \/ Release(port)
  \/ \E b \in Fragile : Spoil(b)
  \/ \E f \in Configs : EditFile(f)
  \/ \E s \in Socks : CloseSocket(s)

Next ==
  \/ World
  \/ \E r \in Reloaders : ReloadStart(r) \/ ReloadStep(r) \/ AbortReload(r)
  \/ \E due \in SUBSET Queued : BeatStart(due)
  \/ Step(Boot) \/ Diff(Boot) \/ ShutGone(Boot)
  \/ BeatStep

Spec == Init /\ [][Next]_vars

\* Startup and heartbeat are the main task's and run on, a cancelled loop closes
\* its socket, and since the backoff is capped at 60 s every queued address is
\* due again and again.  Nothing is assumed of reloads, which may be dropped.
Fairness ==
  /\ WF_vars(Step(Boot) \/ Diff(Boot) \/ ShutGone(Boot)) /\ WF_vars(BeatStep)
  /\ \A s \in Socks : WF_vars(CloseSocket(s))
  /\ \A b \in Binds : SF_vars(\E due \in SUBSET Queued : b \in due /\ BeatStart(due))

FairSpec == Spec /\ Fairness

----------------------------------------------------------------------------
(* Properties.                                                             *)

\* Every variable has its type: in particular shutdown is only ever called on
\* a handle that exists, and what is read from cfg is a whole configuration.
TypeOK ==
  /\ file \in Configs /\ cfg \in Configs /\ handler \in Configs
  /\ reloads \in 0 .. MaxReloads
  /\ busy \subseteq Ports /\ broken \subseteq Fragile
  /\ owner \in [Socks -> Binds \cup {NoBind}]
  /\ doomed \subseteq Socks /\ orphans \subseteq Socks
  /\ listeners \in [Binds -> Socks \cup {NoSock}]
  /\ attempts \in [Binds -> 0 .. MaxAttempts]
  /\ pc \in [Procs -> Steps]
  /\ snap \in [Procs -> Configs]
  /\ todo \in [Procs -> SUBSET Binds]
  /\ gone \in [Procs -> SUBSET Binds]
  /\ cur \in [Procs -> Binds \cup {NoBind}]
  /\ hand \in [Procs -> Socks \cup {NoSock}]

\* The only ghost listeners are those of aborted reloads: an open socket that
\* nobody has cancelled belongs to the listener registered for its bind, or is
\* in the hands of one task that is about to register it, or was in the hands
\* of a reload that was dropped between serve and insert.  A socket outside the
\* first two can never be closed again by a reload and keeps its port taken
\* (serve, insert, A9 in app.rs); no interleaving of tasks that run to their end
\* leaves one.
NoGhost ==
  /\ \A s \in Open \ (doomed \cup orphans) :
       \/ listeners[owner[s]] = s
       \/ \E p \in Procs : hand[p] = s
  /\ \A b \in Binds : listeners[b] # NoSock =>
       owner[listeners[b]] = b /\ listeners[b] \notin doomed \cup orphans

\* A socket in hand is for the address of the loop body and is in one hand only.
HandsApart ==
  \A p \in Procs : hand[p] # NoSock =>
    /\ owner[hand[p]] = cur[p] /\ hand[p] \notin doomed \cup orphans
    /\ listeners[cur[p]] # hand[p]
    /\ \A q \in Procs \ {p} : hand[q] # hand[p]

\* No reload and no retry is running.
Quiet == \A p \in Procs : pc[p] = "idle"

\* A listener only ever disappears because the configuration of the task that
\* closes it does not want it, or because a newer socket of the same bind
\* replaces it.
ClosedForCause ==
  [][\A b \in Running :
       listeners'[b] # listeners[b] =>
         \E p \in Procs :
           \/ pc[p] = "shut" /\ b \notin snap[p]
           \/ hand[p] # NoSock /\ listeners'[b] = hand[p]]_vars

\* Self-healing, for the part that the retry queue answers for: an address that
\* is queued while the heartbeat rests is listened on sooner or later, unless a
\* reload begins, the configuration does not have it, or something keeps serve
\* from opening it (another program, a socket of ours, its certificate).  A
\* heartbeat that rests has no older configuration in hand (NoForgotten), and
\* what an aborted reload did not queue is not covered.
Heals ==
  \A b \in Binds :
    attempts[b] > 0 /\ pc[Beat] = "idle"
      ~> \/ listeners[b] # NoSock
         \/ b \notin cfg \/ b \in broken \/ ~Bindable(b, {hand[Beat]})
         \/ \E r \in Reloaders : pc[r] # "idle"


=============================================================================
