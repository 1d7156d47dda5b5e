------------------------------ MODULE MCServices ------------------------------
(***************************************************************************)
(* Five services of the server on one instance: the request loop, the      *)
(* connection limits, the cache file with the single-instance guard, the   *)
(* clock of the prefetch task, and the log file.  They share no state, so  *)
(* a behaviour is about one of them and the others keep their initial      *)
(* state.                                                                  *)
(*                                                                         *)
(* What the cache file holds and what the PID files say depend on each     *)
(* other through the lock only.  A behaviour about the guard has two       *)
(* processes and all outcomes of writing the PID files while the clock     *)
(* stands still; one about the file has the clock and one process, which   *)
(* may be started again and cannot write its PID files.                    *)
(***************************************************************************)
EXTENDS RequestLoop, MCConnLimiter, CachePersist, PrefetchClock, LogFile

CONSTANTS p1, p2   \* two processes

\* Every process is started with the same -p argument.
MCPidPath == [p \in Procs |-> "smartdns.pid"]

VARIABLE part   \* the module the behaviour is about

servicesVars == <<part, loopVars, limitVars, persistVars, clockVars, logVars>>

ServicesInit ==
  /\ part \in {"requests", "limits", "guard", "file", "clock", "log"}
  /\ LoopInit /\ LimitInit /\ PersistInit /\ ClockInit /\ LogInit
  /\ part \notin {"guard", "file"} => disk = Blank
  /\ part # "clock" => ptask = "off"

ServicesNext ==
  \/ /\ part = "requests" /\ LoopNext
     /\ UNCHANGED <<part, limitVars, persistVars, clockVars, logVars>>
  \/ /\ part = "limits" /\ LimitNext
     /\ UNCHANGED <<part, loopVars, persistVars, clockVars, logVars>>
  \/ /\ part = "guard" /\ PersistNext /\ UNCHANGED clock
     /\ UNCHANGED <<part, loopVars, limitVars, clockVars, logVars>>
  \/ /\ part = "file" /\ PersistNext /\ holder' # p2 /\ UNCHANGED <<pidfile, wrote>>
     /\ UNCHANGED <<part, loopVars, limitVars, clockVars, logVars>>
  \/ /\ part = "clock" /\ ClockNext
     /\ UNCHANGED <<part, loopVars, limitVars, persistVars, logVars>>
  \/ /\ part = "log" /\ LogNext
     /\ UNCHANGED <<part, loopVars, limitVars, persistVars, clockVars>>

ServicesSpec == ServicesInit /\ [][ServicesNext]_servicesVars
=============================================================================
