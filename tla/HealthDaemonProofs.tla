-------------------------- MODULE HealthDaemonProofs --------------------------
(***************************************************************************)
(* Proofs about HealthDaemon for every set of instances and every bound on *)
(* restarts: the loop's state stays well typed, and every step of the     *)
(* probe loop, of kopf, of the user and of a restart is a step of the     *)
(* daemon lifecycle (DaemonLifecycle) or leaves it unchanged.              *)
(***************************************************************************)
EXTENDS HealthDaemon, TLAPS

\* The refinement mapping: the lifecycle state of every daemon.
daemonBar == [u \in Insts |-> DaemonState(u)]

\* The inductive invariant: the types, and a stop flag set on a running
\* daemon only for an instance being deleted.
IInv == TypeOK /\ StopOnlyWhenDeleted

\* Phases never go back to "live"; a daemon's flag is set only by Stop.
LEMMA InitIInv == Init => IInv
  BY HealthAssumption DEF Init, IInv, TypeOK, StopOnlyWhenDeleted, Intervals, Phases, Pcs

LEMMA NextIInv == IInv /\ [Next]_vars => IInv'
  <1> SUFFICES ASSUME IInv, [Next]_vars PROVE IInv'
    OBVIOUS
  <1> USE HealthAssumption DEF IInv, TypeOK, StopOnlyWhenDeleted, Phases, Pcs, Intervals
  <1>1. ASSUME NEW u \in Insts, Spawn(u) PROVE IInv'
    BY <1>1 DEF Spawn
  <1>2. ASSUME NEW u \in Insts, LoopTest(u) PROVE IInv'
    BY <1>2 DEF LoopTest
  <1>3. ASSUME NEW u \in Insts, Probe(u) PROVE IInv'
    BY <1>3 DEF Probe, ProbeResults
  <1>4. ASSUME NEW u \in Insts, Wake(u) PROVE IInv'
    BY <1>4 DEF Wake
  <1>5. ASSUME NEW u \in Insts, Stop(u) PROVE IInv'
    BY <1>5 DEF Stop
  <1>6. ASSUME NEW u \in Insts, Finish(u) PROVE IInv'
    BY <1>6 DEF Finish
  <1>7. ASSUME NEW u \in Insts, Delete(u) PROVE IInv'
    BY <1>7 DEF Delete
  <1>8. ASSUME Restart PROVE IInv'
    BY <1>8 DEF Restart
  <1>9. CASE UNCHANGED vars
    BY <1>9 DEF vars
  <1>. QED
    BY <1>1, <1>2, <1>3, <1>4, <1>5, <1>6, <1>7, <1>8, <1>9
       DEF Next, DaemonStep, KopfStep

\* monitor_bind9_health's state stays in its types: the interval of every
\* stopped.wait is one of the code's constants.
THEOREM TypeCorrect == Spec => []TypeOK
  <1>1. Init => IInv
    BY InitIInv
  <1>2. IInv /\ [Next]_vars => IInv'
    BY NextIInv
  <1>3. IInv => TypeOK
    BY DEF IInv
  <1>. QED
    BY <1>1, <1>2, <1>3, PTL DEF Spec

\* Every step of the loop maps to a lifecycle step or a stutter: in
\* particular the loop returns (LoopTest with the flag set) only for an
\* instance being deleted, which is DaemonLifecycle's Exit.
LEMMA StepRefines == IInv /\ [Next]_vars => [Lifecycle!Next]_Lifecycle!vars
  <1> SUFFICES ASSUME IInv, [Next]_vars
               PROVE  [Lifecycle!Next]_Lifecycle!vars
    OBVIOUS
  <1> USE DEF IInv, TypeOK, StopOnlyWhenDeleted, Phases, Pcs
  <1>1. ASSUME NEW u \in Insts, Spawn(u) PROVE Lifecycle!Spawn(u)
    BY <1>1 DEF Spawn, Lifecycle!Spawn, DaemonState
  <1>2. ASSUME NEW u \in Insts, LoopTest(u), stopped[u]
        PROVE  Lifecycle!Exit(u)
    BY <1>2 DEF LoopTest, Lifecycle!Exit, DaemonState
  <1>3. ASSUME NEW u \in Insts, LoopTest(u), ~stopped[u]
        PROVE  UNCHANGED Lifecycle!vars
    BY <1>3 DEF LoopTest, Lifecycle!vars, DaemonState
  <1>4. ASSUME NEW u \in Insts, Probe(u) \/ Wake(u) \/ Stop(u)
        PROVE  UNCHANGED Lifecycle!vars
    BY <1>4 DEF Probe, Wake, Stop, Lifecycle!vars, DaemonState
  <1>5. ASSUME NEW u \in Insts, Finish(u) PROVE Lifecycle!Finish(u)
    BY <1>5 DEF Finish, Lifecycle!Finish, DaemonState
  <1>6. ASSUME NEW u \in Insts, Delete(u) PROVE Lifecycle!Delete(u)
    BY <1>6 DEF Delete, Lifecycle!Delete, DaemonState
  <1>7. ASSUME Restart PROVE Lifecycle!Restart
    BY <1>7 DEF Restart, Lifecycle!Restart, DaemonState
  <1>8. CASE UNCHANGED vars
    BY <1>8 DEF vars, Lifecycle!vars, DaemonState
  <1>. QED
    BY <1>1, <1>2, <1>3, <1>4, <1>5, <1>6, <1>7, <1>8
       DEF Next, DaemonStep, KopfStep, Lifecycle!Next

\* The probe loop of monitor_bind9_health, with kopf around it, implements
\* the safety part of the daemon lifecycle that Reconciler assumes: a
\* daemon starts only for a live instance, returns only for one being
\* deleted, and the finalizer goes only once no daemon runs.
THEOREM Refinement == Spec => LifecycleSafety
  <1>1. Init => Lifecycle!Init
    BY DEF Init, Lifecycle!Init, DaemonState
  <1>2. IInv /\ [Next]_vars => [Lifecycle!Next]_Lifecycle!vars
    BY StepRefines
  <1>3. Spec => []IInv
    BY InitIInv, NextIInv, PTL DEF Spec
  <1>. QED
    BY <1>1, <1>2, <1>3, PTL DEF Spec, LifecycleSafety, Lifecycle!SafetySpec
=============================================================================
