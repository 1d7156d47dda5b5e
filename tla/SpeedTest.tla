----------------------------- MODULE SpeedTest -----------------------------
(***************************************************************************)
(* What a speed test promises to the lookup that asked for it: it names an *)
(* address that has answered at least one probe, its verdict is final, and *)
(* it gives up only when none has answered; when the list it was given     *)
(* names an address twice it may also give up after its last probe.        *)
(***************************************************************************)
CONSTANTS
  Ips,      \* the candidate addresses
  Racing,   \* "no verdict yet"
  NoIp      \* "no address answered"

VARIABLES
  answered,  \* the addresses that have answered a probe
  underway,  \* probes are under way
  repeated,  \* the list names an address twice
  verdict    \* Racing, an address or NoIp

Init ==
  /\ answered = {} /\ underway = TRUE /\ repeated \in BOOLEAN
  /\ verdict = Racing

\* One probe comes back or the deadline passes; this may decide the race.
Step ==
  /\ verdict = Racing
  /\ answered \subseteq answered' /\ answered' \subseteq Ips
  /\ underway' => underway
  /\ repeated' = repeated
  /\ \/ verdict' = Racing
     \/ verdict' \in answered'
     \/ verdict' = NoIp /\ (answered' = {} \/ (repeated /\ ~underway'))

Spec == Init /\ [][Step]_<<answered, underway, repeated, verdict>>
=============================================================================
