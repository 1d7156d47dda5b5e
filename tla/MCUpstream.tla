----------------------------- MODULE MCUpstream -----------------------------
(***************************************************************************)
(* The modules below the cache on one instance: a lookup with folding and  *)
(* fallback, one speed test, one pair of dual-stack handlers.  They are    *)
(* steps of one query that hand over values only, so a behaviour is about  *)
(* one of them; the others keep their initial state.                       *)
(***************************************************************************)
EXTENDS NameServer, PingRace, DualStack

CONSTANTS a, b

VARIABLE part   \* the module the behaviour is about

vars == <<part, lookupVars, raceVars, dualVars>>

MCAnswers ==
  {[code |-> "answer", tc |-> FALSE, ips |-> {a}],
   [code |-> "answer", tc |-> FALSE, ips |-> {}],
   [code |-> "answer", tc |-> TRUE, ips |-> {a, b}],
   [code |-> "nodataSoa", tc |-> FALSE, ips |-> {}],
   [code |-> "nxSoa", tc |-> FALSE, ips |-> {}],
   [code |-> "nx", tc |-> FALSE, ips |-> {}],
   Failure("err")}

MCDualReplies ==
  {[kind |-> "ips", ttl |-> 1], [kind |-> "ips", ttl |-> 2],
   [kind |-> "soa", ttl |-> 2], Broken}

Init ==
  /\ part \in {"lookup", "speed", "dual"}
  /\ LookupInit /\ RaceInit /\ DualInit
  /\ part # "lookup" => strategy = "Other"
  /\ part # "speed" => Distinct
  /\ part # "dual" => setup = [select |-> FALSE, force |-> FALSE, soa |-> FALSE]

Next ==
  \/ part = "lookup" /\ LookupNext /\ UNCHANGED <<part, raceVars, dualVars>>
  \/ part = "speed" /\ RaceNext /\ UNCHANGED <<part, lookupVars, dualVars>>
  \/ part = "dual" /\ DualNext /\ UNCHANGED <<part, lookupVars, raceVars>>

\* The executor runs a lookup that has a result, and its five-second timer
\* fires; no server has to reply and no test to end.
FairSpec ==
  /\ Init /\ [][Next]_vars
  /\ WF_vars(part = "lookup" /\ Cut /\ UNCHANGED <<part, raceVars, dualVars>>)
  /\ WF_vars(part = "lookup" /\ Publish /\ UNCHANGED <<part, raceVars, dualVars>>)

\* Every variable of a lookup and of a speed test has its type: exchanges are
\* open only with servers of the round, and no count of a test over distinct
\* addresses underflows.
UpstreamTypeOK == LookupTypeOK /\ RaceTypeOK
=============================================================================
