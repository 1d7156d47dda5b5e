------------------------------ MODULE Folding ------------------------------
(***************************************************************************)
(* What the two inflight maps of the resolver promise (dns_mw_cache.rs     *)
(* above, dns_mw_ns.rs below the other middlewares): of the tasks that     *)
(* want one answer at most one asks for it, whoever comes meanwhile joins, *)
(* and the end of the flight releases everybody who joined it.             *)
(***************************************************************************)
CONSTANTS
  Flights,   \* the keys of the map
  Tasks,
  NoTask

VARIABLES
  leader,    \* who asks, per flight
  joined     \* who waits for it, per flight

Free(t) == \A f \in Flights : leader[f] # t /\ t \notin joined[f]

Init ==
  /\ leader = [f \in Flights |-> NoTask]
  /\ joined = [f \in Flights |-> {}]

Lead(f, t) ==
  /\ leader[f] = NoTask /\ Free(t)
  /\ leader' = [leader EXCEPT ![f] = t]
  /\ UNCHANGED joined

Join(f, t) ==
  /\ leader[f] # NoTask /\ Free(t)
  /\ joined' = [joined EXCEPT ![f] = @ \cup {t}]
  /\ UNCHANGED leader

End(f) ==
  /\ leader[f] # NoTask
  /\ leader' = [leader EXCEPT ![f] = NoTask]
  /\ joined' = [joined EXCEPT ![f] = {}]

Next == \E f \in Flights : End(f) \/ \E t \in Tasks : Lead(f, t) \/ Join(f, t)

Spec == Init /\ [][Next]_<<leader, joined>>
=============================================================================
