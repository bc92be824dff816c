----------------------------- MODULE HealthDaemon -----------------------------
(***************************************************************************)
(* The probe loop of monitor_bind9_health (handlers/instance.py), one per  *)
(* instance, with kopf's stop flag `stopped` and the user, kopf and        *)
(* operator restarts around it.                                            *)
(*                                                                         *)
(*   while not stopped:                                                    *)
(*       try:                                                              *)
(*           if not test_dns_functionality(...): logger.error(...)         *)
(*           stopped.wait(60)                                              *)
(*       except Exception: ... stopped.wait(120)                           *)
(*                                                                         *)
(* test_dns_functionality (utils/dns.py) catches every exception and       *)
(* returns False, so a probe either succeeds or fails; the except branch   *)
(* of the loop is reached only if logging itself raises, which is not      *)
(* modelled.  stopped.wait(t) returns after t seconds or as soon as the    *)
(* flag is set; both end in the loop test, so one action models it.       *)
(***************************************************************************)
EXTENDS Naturals

CONSTANTS
    Insts,        \* the instances
    MaxRestarts   \* bound on operator restarts

ASSUME HealthAssumption == MaxRestarts \in Nat

VARIABLES
    phase,     \* phase[u]: "live", "deleting" or "gone"
    dpc,       \* dpc[u]: where the daemon of u is: "off", "loop" (the
               \* while test), "probe", "waiting" (in stopped.wait), "exited"
    stopped,   \* stopped[u]: kopf's stop flag of the daemon of u
    interval,  \* interval[u]: the timeout of the last stopped.wait (0: none)
    probeOk,   \* probeOk[u]: the result of the last probe
    restarts   \* operator restarts so far

vars == <<phase, dpc, stopped, interval, probeOk, restarts>>

Phases == {"live", "deleting", "gone"}
Pcs == {"off", "loop", "probe", "waiting", "exited"}
Intervals == {0, 60, 120}

TypeOK ==
    /\ phase \in [Insts -> Phases]
    /\ dpc \in [Insts -> Pcs]
    /\ stopped \in [Insts -> BOOLEAN]
    /\ interval \in [Insts -> Intervals]
    /\ probeOk \in [Insts -> BOOLEAN]
    /\ restarts \in 0..MaxRestarts

Init ==
    /\ phase = [u \in Insts |-> "live"]
    /\ dpc = [u \in Insts |-> "off"]
    /\ stopped = [u \in Insts |-> FALSE]
    /\ interval = [u \in Insts |-> 0]
    /\ probeOk = [u \in Insts |-> TRUE]
    /\ restarts = 0

\* kopf spawns monitor_bind9_health for a live instance, with a fresh flag.
Spawn(u) ==
    /\ phase[u] = "live" /\ dpc[u] = "off"
    /\ dpc' = [dpc EXCEPT ![u] = "loop"]
    /\ stopped' = [stopped EXCEPT ![u] = FALSE]
    /\ UNCHANGED <<phase, interval, probeOk, restarts>>

\* Defect variant: the loop test never looks at the flag (while True).
LoopTestIgnoresStop(u) ==
    /\ dpc[u] = "loop"
    /\ dpc' = [dpc EXCEPT ![u] = "probe"]
    /\ UNCHANGED <<phase, stopped, interval, probeOk, restarts>>

\* while not stopped: run a probe, or leave the loop and return.
LoopTest(u) ==
    /\ dpc[u] = "loop"
    /\ dpc' = [dpc EXCEPT ![u] = IF stopped[u] THEN "exited" ELSE "probe"]
    /\ UNCHANGED <<phase, stopped, interval, probeOk, restarts>>

\* What test_dns_functionality (utils/dns.py) can return: True when the
\* query answers, False on any exception, which it catches and logs.
ProbeResults == BOOLEAN

\* Defect variant: a failed probe doubles the last interval.
ProbeDoubles(u) ==
    /\ dpc[u] = "probe"
    /\ \E ok \in ProbeResults :
          /\ probeOk' = [probeOk EXCEPT ![u] = ok]
          /\ interval' = [interval EXCEPT ![u] =
                             IF ok \/ interval[u] = 0 THEN 60 ELSE 2 * interval[u]]
    /\ dpc' = [dpc EXCEPT ![u] = "waiting"]
    /\ UNCHANGED <<phase, stopped, restarts>>

\* test_dns_functionality, the error log on failure, then stopped.wait(60)
\* whatever the probe returned.
Probe(u) ==
    /\ dpc[u] = "probe"
    /\ \E ok \in ProbeResults : probeOk' = [probeOk EXCEPT ![u] = ok]
    /\ interval' = [interval EXCEPT ![u] = 60]
    /\ dpc' = [dpc EXCEPT ![u] = "waiting"]
    /\ UNCHANGED <<phase, stopped, restarts>>

\* stopped.wait returns: on its timeout, or at once when the flag is set.
Wake(u) ==
    /\ dpc[u] = "waiting"
    /\ dpc' = [dpc EXCEPT ![u] = "loop"]
    /\ UNCHANGED <<phase, stopped, interval, probeOk, restarts>>

\* The user deletes the instance.
Delete(u) ==
    /\ phase[u] = "live"
    /\ phase' = [phase EXCEPT ![u] = "deleting"]
    /\ UNCHANGED <<dpc, stopped, interval, probeOk, restarts>>

\* kopf sees the deletion and sets the stop flag of the running daemon.
Stop(u) ==
    /\ phase[u] # "live" /\ dpc[u] \notin {"off", "exited"} /\ ~stopped[u]
    /\ stopped' = [stopped EXCEPT ![u] = TRUE]
    /\ UNCHANGED <<phase, dpc, interval, probeOk, restarts>>

\* kopf removes its finalizer once the daemon has returned.
Finish(u) ==
    /\ phase[u] = "deleting" /\ dpc[u] \in {"off", "exited"}
    /\ phase' = [phase EXCEPT ![u] = "gone"]
    /\ UNCHANGED <<dpc, stopped, interval, probeOk, restarts>>

\* The operator process restarts: every daemon dies between two steps.
Restart ==
    /\ restarts < MaxRestarts
    /\ dpc' = [u \in Insts |-> "off"]
    /\ restarts' = restarts + 1
    /\ UNCHANGED <<phase, stopped, interval, probeOk>>

\* The daemon's own steps, in the thread kopf runs it in.
DaemonStep(u) == LoopTest(u) \/ Probe(u) \/ Wake(u)

\* What kopf does for the instance, independently of the daemon's thread.
KopfStep(u) == Spawn(u) \/ Stop(u) \/ Finish(u)

Next ==
    \/ \E u \in Insts : DaemonStep(u) \/ KopfStep(u) \/ Delete(u)
    \/ Restart

\* The daemon thread is scheduled, and kopf's spawning, stopping and
\* finalizer removal each happen once enabled for good; the user and
\* restarts are not constrained.
Fairness ==
    \A u \in Insts : /\ WF_vars(DaemonStep(u))
                     /\ WF_vars(Spawn(u)) /\ WF_vars(Stop(u)) /\ WF_vars(Finish(u))

Spec == Init /\ [][Next]_vars /\ Fairness

-----------------------------------------------------------------------------
(***************************************************************************)
(* Properties.                                                             *)
(***************************************************************************)

\* The stop flag of a daemon is set only once its instance is being
\* deleted: monitor_bind9_health never returns for a live instance.
StopOnlyWhenDeleted ==
    \A u \in Insts : stopped[u] /\ dpc[u] \notin {"off", "exited"} => phase[u] # "live"

\* The daemon as kopf and Reconciler see it: off, running or returned.
DaemonState(u) ==
    CASE dpc[u] = "off" -> "off"
      [] dpc[u] = "exited" -> "exited"
      [] OTHER -> "running"

Lifecycle == INSTANCE DaemonLifecycle
                 WITH daemon <- [u \in Insts |-> DaemonState(u)]

\* The probe loop implements the daemon lifecycle: it returns only for an
\* instance being deleted, and it does return, so the deletion completes.
LifecycleSpec == Lifecycle!Spec

\* The safety part of the same: every step of the probe loop, of kopf, of
\* the user and of a restart is a lifecycle step or leaves it unchanged.
LifecycleSafety == Lifecycle!SafetySpec
=============================================================================
