------------------------------ MODULE MCServing ------------------------------
(***************************************************************************)
(* What the server must get done, on one instance: open its listeners, and *)
(* answer or drop every request.  The main loop runs both, but they share  *)
(* no state, so a behaviour is about one of them and the other keeps its   *)
(* initial state.                                                          *)
(***************************************************************************)
EXTENDS MCListeners, RequestLoop

VARIABLE part   \* the module the behaviour is about

servingVars == <<part, vars, loopVars>>

ServingInit ==
  /\ part \in {"listeners", "requests"}
  /\ Init /\ LoopInit
  /\ part # "listeners" => busy = Ports

OfListeners(A) == part = "listeners" /\ A /\ UNCHANGED <<part, loopVars>>
OfRequests(A) == part = "requests" /\ A /\ UNCHANGED <<part, vars>>

\* The fairness of Listeners and of RequestLoop.
ServingSpec ==
  /\ ServingInit
  /\ [][OfListeners(Next) \/ OfRequests(LoopNext)]_servingVars
  /\ WF_servingVars(OfListeners(Step(Boot) \/ Diff(Boot) \/ ShutGone(Boot)))
  /\ WF_servingVars(OfListeners(BeatStep))
  /\ \A s \in Socks : WF_servingVars(OfListeners(CloseSocket(s)))
  /\ \A b \in Binds :
       SF_servingVars(OfListeners(\E due \in SUBSET Queued : b \in due /\ BeatStart(due)))
  /\ \A r \in Slots : WF_servingVars(OfRequests(Task(r)))
  /\ WF_servingVars(OfRequests(LoopStep))
  /\ SF_servingVars(OfRequests(Drain))
=============================================================================
