--------------------------- MODULE ExecutorProofs ---------------------------
(***************************************************************************)
(* Proofs about Executor for every set of instances, every pool size and  *)
(* every bound: the pool never has more calls on workers than it has       *)
(* workers, and every step of the pool and the loops is a step of            *)
(* HealthDaemon, so the lifecycle HealthDaemonProofs shows for the loops   *)
(* alone still holds with the pool around them.                            *)
(***************************************************************************)
EXTENDS Executor, FiniteSetTheorems, TLAPS

\* A worker is taken by the daemon of u exactly while u's probe loop runs.
\* The refinement needs it: a loop step happens on the daemon's worker, and
\* a start finds no loop running for the instance whose call it takes.
DaemonHoldsWorker ==
    \A u \in Insts :
        Daemon(u) \in running <=> dpc[u] \in {"loop", "probe", "waiting"}

\* The inductive invariant: the types, a finite set of busy workers, and
\* the daemons' workers matched with their loops.
IInv == TypeOK /\ IsFiniteSet(running) /\ DaemonHoldsWorker

\* The loop positions at which a daemon holds a worker.
Looping == {"loop", "probe", "waiting"}

\* Taking an idle worker keeps the count of busy workers within the pool.
LEMMA TakeWorker ==
  ASSUME NEW S, NEW x, IsFiniteSet(S), Cardinality(S) < MaxWorkers
  PROVE  IsFiniteSet(S \cup {x}) /\ Cardinality(S \cup {x}) <= MaxWorkers
  BY FS_AddElement, FS_CardinalityType, ExecutorAssumption

\* Freeing a worker keeps the count within the pool.
LEMMA FreeWorker ==
  ASSUME NEW S, NEW x, IsFiniteSet(S), Cardinality(S) <= MaxWorkers
  PROVE  IsFiniteSet(S \ {x}) /\ Cardinality(S \ {x}) <= MaxWorkers
  <1>1. IsFiniteSet(S \ {x}) /\ Cardinality(S \ {x}) <= Cardinality(S)
    BY FS_Subset
  <1>. QED
    BY <1>1, FS_CardinalityType, ExecutorAssumption

\* A handler call and a daemon call are different calls, whatever the
\* instances.
LEMMA CallsDiffer ==
  ASSUME NEW u, NEW v
  PROVE  Handler(u) # Daemon(v) /\ (Daemon(u) = Daemon(v) => u = v)
  BY DEF Handler, Daemon

LEMMA InitIInv == Init => IInv
  BY ExecutorAssumption, FS_EmptySet
     DEF Init, IInv, TypeOK, DaemonHoldsWorker, HD!Init, HD!TypeOK,
         HD!Phases, HD!Pcs, HD!Intervals

\* The call at the head of a queue of calls is the call of its instance,
\* of its kind.
LEMMA HeadCall ==
  ASSUME NEW q \in Seq(Calls), q # <<>>
  PROVE  /\ Head(q) \in Calls /\ Head(q).inst \in Insts
         /\ Head(q).kind = "handler" => Head(q) = Handler(Head(q).inst)
         /\ Head(q).kind = "daemon" => Head(q) = Daemon(Head(q).inst)
  BY DEF Calls, Handler, Daemon

\* Every step keeps the invariant.  Only the starts, the returns and a
\* restart change the busy workers, and only a daemon's start, its loop
\* and a restart move a loop.
LEMMA NextIInv == IInv /\ [Next]_vars => IInv'
  <1> SUFFICES ASSUME IInv, [Next]_vars PROVE IInv'
    OBVIOUS
  <1> USE ExecutorAssumption
      DEF IInv, TypeOK, HD!TypeOK, HD!Phases, HD!Pcs, HD!Intervals, hvars
  <1>1. ASSUME NEW u \in Insts, SubmitHandler(u) PROVE IInv'
    BY <1>1 DEF SubmitHandler, Calls, DaemonHoldsWorker
  <1>2. ASSUME NEW u \in Insts, SubmitDaemon(u) PROVE IInv'
    BY <1>2 DEF SubmitDaemon, Calls, DaemonHoldsWorker
  <1>3. ASSUME NEW u \in Insts, HandlerReturns(u) PROVE IInv'
    <2>1. IsFiniteSet(running') /\ Cardinality(running') <= MaxWorkers
      BY <1>3, FreeWorker DEF HandlerReturns
    <2>2. DaemonHoldsWorker'
      BY <1>3, CallsDiffer DEF HandlerReturns, DaemonHoldsWorker
    <2>. QED
      BY <1>3, <2>1, <2>2 DEF HandlerReturns
  <1>4. ASSUME StartHandler PROVE IInv'
    <2> DEFINE c == Head(queue)
    <2>1. c \in Calls /\ c = Handler(c.inst)
      BY <1>4, HeadCall DEF StartHandler
    <2>2. IsFiniteSet(running') /\ Cardinality(running') <= MaxWorkers
      BY <1>4, TakeWorker DEF StartHandler, PoolSize
    <2>3. DaemonHoldsWorker'
      BY <1>4, <2>1, CallsDiffer DEF StartHandler, DaemonHoldsWorker
    <2>. QED
      BY <1>4, <2>1, <2>2, <2>3 DEF StartHandler
  <1>5. ASSUME StartDaemon PROVE IInv'
    <2> DEFINE c == Head(queue)
               u == c.inst
    <2>1. c \in Calls /\ u \in Insts /\ c = Daemon(u)
      BY <1>5, HeadCall DEF StartDaemon
    <2>2. CASE phase[u] = "live"
      <3>1. HD!Spawn(u) /\ running' = running \cup {Daemon(u)}
        BY <1>5, <2>2 DEF StartDaemon
      <3>2. IsFiniteSet(running') /\ Cardinality(running') <= MaxWorkers
        BY <1>5, <3>1, TakeWorker DEF StartDaemon, PoolSize
      <3>3. DaemonHoldsWorker'
        BY <2>1, <3>1, CallsDiffer DEF HD!Spawn, DaemonHoldsWorker
      <3>. QED
        BY <1>5, <2>1, <3>1, <3>2, <3>3 DEF StartDaemon, HD!Spawn
    <2>3. CASE phase[u] # "live"
      BY <1>5, <2>3 DEF StartDaemon, DaemonHoldsWorker
    <2>. QED
      BY <2>2, <2>3
  <1>6. ASSUME NEW u \in Insts, DaemonStep(u) PROVE IInv'
    <2>1. HD!TypeOK'
      BY <1>6 DEF DaemonStep, HD!DaemonStep, HD!LoopTest, HD!Probe,
                  HD!Wake, HD!ProbeResults
    <2>2. IsFiniteSet(running') /\ Cardinality(running') <= MaxWorkers
      BY <1>6, FreeWorker DEF DaemonStep
    <2>3. DaemonHoldsWorker'
      <3> SUFFICES ASSUME NEW v \in Insts
                   PROVE  Daemon(v) \in running' <=> dpc'[v] \in Looping
        BY DEF DaemonHoldsWorker, Looping
      <3>1. Daemon(v) \in running <=> dpc[v] \in Looping
        BY DEF DaemonHoldsWorker, Looping
      <3>2. CASE HD!LoopTest(u)
        <4>1. CASE v = u
          BY <1>6, <3>1, <3>2, <4>1 DEF DaemonStep, HD!LoopTest, Looping
        <4>2. CASE v # u
          BY <1>6, <3>1, <3>2, <4>2, CallsDiffer
             DEF DaemonStep, HD!LoopTest, Looping
        <4>. QED
          BY <4>1, <4>2
      <3>3. CASE HD!Probe(u) \/ HD!Wake(u)
        BY <1>6, <3>1, <3>3 DEF DaemonStep, HD!Probe, HD!Wake, Looping
      <3>. QED
        BY <1>6, <3>2, <3>3 DEF DaemonStep, HD!DaemonStep
    <2>. QED
      BY <1>6, <2>1, <2>2, <2>3 DEF DaemonStep, Calls
  <1>7. ASSUME NEW u \in Insts, Event(u) PROVE IInv'
    BY <1>7 DEF Event, DaemonHoldsWorker
  <1>8. ASSUME NEW u \in Insts, Delete(u) PROVE IInv'
    BY <1>8 DEF Delete, HD!Delete, DaemonHoldsWorker
  <1>9. ASSUME NEW u \in Insts, Stop(u) PROVE IInv'
    BY <1>9 DEF Stop, HD!Stop, DaemonHoldsWorker, pvars
  <1>10. ASSUME NEW u \in Insts, Finish(u) PROVE IInv'
    BY <1>10 DEF Finish, HD!Finish, DaemonHoldsWorker, pvars
  <1>11. ASSUME Restart PROVE IInv'
    BY <1>11, FS_EmptySet DEF Restart, HD!Restart, DaemonHoldsWorker
  <1>12. CASE UNCHANGED vars
    BY <1>12 DEF vars, pvars, DaemonHoldsWorker
  <1>. QED
    BY <1>1, <1>2, <1>3, <1>4, <1>5, <1>6, <1>7, <1>8, <1>9, <1>10,
       <1>11, <1>12 DEF Next
\* Spec section 1 and settings.execution.max_workers: for every pool size,
\* no more calls are on worker threads than the pool has workers, and the
\* queue holds only handler and daemon calls of the instances.
THEOREM TypeCorrect == Spec => []TypeOK
  <1>1. IInv => TypeOK
    BY DEF IInv
  <1>. QED
    BY <1>1, InitIInv, NextIInv, PTL DEF Spec

\* Every step of the pool is a step of HealthDaemon or leaves the loops'
\* state alone: submitting, starting a handler, a handler's return and an
\* event touch only the pool; a daemon's start is kopf's spawn, and its
\* steps on the worker are the loop's.
LEMMA StepRefinesHD == IInv /\ [Next]_vars => [HD!Next]_HD!vars
  <1> SUFFICES ASSUME IInv, [Next]_vars PROVE [HD!Next]_HD!vars
    OBVIOUS
  <1> USE DEF HD!vars, hvars
  <1>1. ASSUME NEW u \in Insts,
               SubmitHandler(u) \/ SubmitDaemon(u) \/ HandlerReturns(u)
                 \/ Event(u)
        PROVE  UNCHANGED HD!vars
    BY <1>1 DEF SubmitHandler, SubmitDaemon, HandlerReturns, Event
  <1>2. ASSUME StartHandler PROVE UNCHANGED HD!vars
    BY <1>2 DEF StartHandler
  <1>3. ASSUME StartDaemon PROVE [HD!Next]_HD!vars
    <2> DEFINE u == Head(queue).inst
    <2>1. u \in Insts
      BY <1>3, HeadCall DEF StartDaemon, IInv, TypeOK
    <2>2. CASE phase[u] = "live"
      BY <1>3, <2>1, <2>2 DEF StartDaemon, HD!Next, HD!KopfStep
    <2>3. CASE phase[u] # "live"
      BY <1>3, <2>3 DEF StartDaemon
    <2>. QED
      BY <2>2, <2>3
  <1>4. ASSUME NEW u \in Insts, DaemonStep(u) PROVE HD!Next
    BY <1>4 DEF DaemonStep, HD!Next
  <1>5. ASSUME NEW u \in Insts, Delete(u) PROVE HD!Next
    BY <1>5 DEF Delete, HD!Next
  <1>6. ASSUME NEW u \in Insts, Stop(u) \/ Finish(u) PROVE HD!Next
    BY <1>6 DEF Stop, Finish, HD!Next, HD!KopfStep
  <1>7. ASSUME Restart PROVE HD!Next
    BY <1>7 DEF Restart, HD!Next
  <1>8. CASE UNCHANGED vars
    BY <1>8 DEF vars
  <1>. QED
    BY <1>1, <1>2, <1>3, <1>4, <1>5, <1>6, <1>7, <1>8 DEF Next

\* The safety part of ImplementsHealthDaemon, for every pool size: the
\* probe loops on their workers, with the pool in between, start and step
\* only as HealthDaemon allows.
THEOREM RefinesHealthDaemon == Spec => HD!Init /\ [][HD!Next]_HD!vars
  <1>1. Init => HD!Init
    BY DEF Init
  <1>. QED
    BY <1>1, InitIInv, NextIInv, StepRefinesHD, PTL DEF Spec
\* The results of HealthDaemonProofs, for the loops that run on the pool.
HDP == INSTANCE HealthDaemonProofs

\* With the pool around them, the probe loops still implement the safety
\* part of DaemonLifecycle, the daemon Reconciler assumes: a daemon starts
\* only for a live instance and returns only for one being deleted, and
\* kopf removes the finalizer only once no daemon runs.  The argument is
\* HealthDaemonProofs' own, applied to the HealthDaemon steps that
\* RefinesHealthDaemon shows every pool step to be.
THEOREM PoolKeepsDaemonLifecycle == Spec => HDP!LifecycleSafety
  <1>1. Init => HDP!IInv /\ HDP!Lifecycle!Init
    <2>1. HDP!Init => HDP!IInv
      BY HDP!InitIInv, ExecutorAssumption
    <2>. QED
      BY <2>1 DEF Init, HD!Init, HDP!Init, HDP!Lifecycle!Init, HDP!DaemonState
  <1>2. [HD!Next]_HD!vars => [HDP!Next]_HDP!vars
    BY DEF HD!Next, HDP!Next, HD!vars, HDP!vars, HD!DaemonStep,
           HDP!DaemonStep, HD!KopfStep, HDP!KopfStep, HD!LoopTest,
           HDP!LoopTest, HD!Probe, HDP!Probe, HD!ProbeResults,
           HDP!ProbeResults, HD!Wake, HDP!Wake, HD!Spawn, HDP!Spawn, HD!Stop,
           HDP!Stop, HD!Finish, HDP!Finish, HD!Delete, HDP!Delete,
           HD!Restart, HDP!Restart
  <1>3. IInv /\ HDP!IInv /\ [Next]_vars => IInv' /\ HDP!IInv'
    BY <1>2, NextIInv, StepRefinesHD, HDP!NextIInv, ExecutorAssumption
  <1>4. HDP!IInv /\ IInv /\ [Next]_vars
          => [HDP!Lifecycle!Next]_HDP!Lifecycle!vars
    BY <1>2, StepRefinesHD, HDP!StepRefines, ExecutorAssumption
  <1>. QED
    BY <1>1, <1>3, <1>4, InitIInv, PTL
       DEF Spec, HDP!LifecycleSafety, HDP!Lifecycle!SafetySpec

=============================================================================
