--------------------------- MODULE DaemonLifecycle ---------------------------
(***************************************************************************)
(* What kopf promises of the daemon of a resource, and what Reconciler     *)
(* models of monitor_bind9_health: a daemon is started for every live      *)
(* instance, exits only once its instance is being deleted, is killed by   *)
(* an operator restart and started again afterwards, and the deletion of   *)
(* an instance (the removal of kopf's finalizer) waits for its daemon.     *)
(* The probe loop itself is HealthDaemon, which implements this module.    *)
(***************************************************************************)
EXTENDS Naturals

CONSTANTS
    Insts,        \* the instances (Bind9Instance objects)
    MaxRestarts   \* bound on operator restarts

VARIABLES
    phase,     \* phase[u]: "live", "deleting" (deletion requested) or "gone"
    daemon,    \* daemon[u]: "off", "running" or "exited"
    restarts   \* operator restarts so far

vars == <<phase, daemon, restarts>>

Init ==
    /\ phase = [u \in Insts |-> "live"]
    /\ daemon = [u \in Insts |-> "off"]
    /\ restarts = 0

\* kopf spawns the daemon of a live instance that has none.
Spawn(u) ==
    /\ phase[u] = "live" /\ daemon[u] = "off"
    /\ daemon' = [daemon EXCEPT ![u] = "running"]
    /\ UNCHANGED <<phase, restarts>>

\* The daemon returns; it may only once its instance is being deleted.
Exit(u) ==
    /\ daemon[u] = "running" /\ phase[u] # "live"
    /\ daemon' = [daemon EXCEPT ![u] = "exited"]
    /\ UNCHANGED <<phase, restarts>>

\* The user deletes the instance.
Delete(u) ==
    /\ phase[u] = "live"
    /\ phase' = [phase EXCEPT ![u] = "deleting"]
    /\ UNCHANGED <<daemon, restarts>>

\* kopf removes its finalizer once no daemon of the instance runs.
Finish(u) ==
    /\ phase[u] = "deleting" /\ daemon[u] \in {"off", "exited"}
    /\ phase' = [phase EXCEPT ![u] = "gone"]
    /\ UNCHANGED <<daemon, restarts>>

\* The operator process restarts: every daemon dies with it.
Restart ==
    /\ restarts < MaxRestarts
    /\ daemon' = [u \in Insts |-> "off"]
    /\ restarts' = restarts + 1
    /\ UNCHANGED phase

Next ==
    \/ \E u \in Insts : Spawn(u) \/ Exit(u) \/ Delete(u) \/ Finish(u)
    \/ Restart

SafetySpec == Init /\ [][Next]_vars

Spec ==
    /\ SafetySpec
    /\ \A u \in Insts : WF_vars(Spawn(u)) /\ WF_vars(Exit(u)) /\ WF_vars(Finish(u))
=============================================================================
