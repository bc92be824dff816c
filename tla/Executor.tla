------------------------------- MODULE Executor -------------------------------
(***************************************************************************)
(* kopf's thread pool, shared by the operator's sync handlers and its sync *)
(* health daemons.  Every handler of this operator is a plain `def`, so    *)
(* kopf runs each call in its ThreadPoolExecutor, whose size is            *)
(* settings.execution.max_workers (__main__.py: 10).  A call waits in the  *)
(* executor's FIFO work queue until a worker thread is idle.  The daemon   *)
(* monitor_bind9_health is a `def` too: its loop runs on a worker thread   *)
(* and keeps it until the loop returns.                                    *)
(*                                                                         *)
(* The daemon's own steps, kopf's stop flag and the user's deletion are    *)
(* those of HealthDaemon, composed here with the pool: the loop starts     *)
(* when a worker takes the daemon's call, and its steps run on that worker.*)
(* A handler call is one step once on a worker: its store calls and their  *)
(* failures are Reconciler's business; a TemporaryError is a new cause.    *)
(***************************************************************************)
EXTENDS Naturals, Sequences, FiniteSets, SequencesExt

CONSTANTS
    Insts,        \* the Bind9Instance objects
    MaxWorkers,   \* settings.execution.max_workers
    MaxRestarts,  \* bound on operator restarts
    MaxEvents     \* bound on update events and handler retries

ASSUME ExecutorAssumption ==
    /\ MaxWorkers \in Nat \ {0}
    /\ MaxRestarts \in Nat
    /\ MaxEvents \in Nat

VARIABLES
    phase, dpc, stopped, interval, probeOk, restarts,  \* as in HealthDaemon
    queue,     \* the executor's work queue: calls not yet on a worker
    running,   \* the calls on a worker thread
    pending,   \* pending[u]: kopf has a cause of u whose handler is not called yet
    events     \* update events and retries so far

HD == INSTANCE HealthDaemon

hvars == <<phase, dpc, stopped, interval, probeOk, restarts>>
pvars == <<queue, running, pending, events>>
vars == <<hvars, pvars>>

\* A call submitted to the executor: a handler of u, or the daemon of u.
Handler(u) == [kind |-> "handler", inst |-> u]
Daemon(u) == [kind |-> "daemon", inst |-> u]
Calls == {Handler(u) : u \in Insts} \cup {Daemon(u) : u \in Insts}

\* The call has been submitted and has not returned.
InFlight(c) == Contains(queue, c) \/ c \in running

\* settings.execution.max_workers = 10 in configure_operator.
PoolSize == MaxWorkers

TypeOK ==
    /\ HD!TypeOK
    /\ queue \in Seq(Calls)
    /\ running \subseteq Calls /\ Cardinality(running) <= MaxWorkers
    /\ pending \in [Insts -> BOOLEAN]
    /\ events \in 0..MaxEvents

\* Every instance exists and has its create cause pending.
Init ==
    /\ HD!Init
    /\ queue = <<>>
    /\ running = {}
    /\ pending = [u \in Insts |-> TRUE]
    /\ events = 0

\* kopf calls the handler of u's pending cause, one call per object at a
\* time: loop.run_in_executor puts the call in the work queue.
SubmitHandler(u) ==
    /\ pending[u] /\ phase[u] # "gone" /\ ~InFlight(Handler(u))
    /\ queue' = Append(queue, Handler(u))
    /\ pending' = [pending EXCEPT ![u] = FALSE]
    /\ UNCHANGED <<hvars, running, events>>

\* kopf spawns the daemon of a live instance: its call is queued too.
SubmitDaemon(u) ==
    /\ phase[u] = "live" /\ dpc[u] = "off" /\ ~InFlight(Daemon(u))
    /\ queue' = Append(queue, Daemon(u))
    /\ UNCHANGED <<hvars, running, pending, events>>

\* Defect variant: a handler call starts without an idle worker.
StartHandlerNoIdleCheck ==
    /\ queue # <<>> /\ Head(queue).kind = "handler"
    /\ running' = running \cup {Head(queue)}
    /\ queue' = Tail(queue)
    /\ UNCHANGED <<hvars, pending, events>>

\* An idle worker takes the oldest call, a handler.
StartHandler ==
    /\ queue # <<>> /\ Head(queue).kind = "handler"
    /\ Cardinality(running) < PoolSize
    /\ running' = running \cup {Head(queue)}
    /\ queue' = Tail(queue)
    /\ UNCHANGED <<hvars, pending, events>>

\* An idle worker takes the oldest call, a daemon: the loop starts with a
\* fresh flag; for an instance already being deleted the flag is set, the
\* loop test fails at once and the call returns.
StartDaemon ==
    /\ queue # <<>> /\ Head(queue).kind = "daemon"
    /\ Cardinality(running) < PoolSize
    /\ queue' = Tail(queue)
    /\ LET u == Head(queue).inst IN
       \/ /\ phase[u] = "live"
          /\ HD!Spawn(u)
          /\ running' = running \cup {Daemon(u)}
       \/ /\ phase[u] # "live"
          /\ UNCHANGED <<hvars, running>>
    /\ UNCHANGED <<pending, events>>

\* The handler returns or raises, and its worker is idle again.
HandlerReturns(u) ==
    /\ Handler(u) \in running
    /\ running' = running \ {Handler(u)}
    /\ UNCHANGED <<hvars, queue, pending, events>>

\* Defect variant: the loop is `while True`, blind to the stop flag.
DaemonStepWhileTrue(u) ==
    /\ HD!LoopTestIgnoresStop(u) \/ HD!Probe(u) \/ HD!Wake(u)
    /\ UNCHANGED pvars

\* One step of monitor_bind9_health on its worker; when the loop returns,
\* the worker is idle again.
DaemonStep(u) ==
    /\ HD!DaemonStep(u)
    /\ running' = IF dpc'[u] = "exited" THEN running \ {Daemon(u)} ELSE running
    /\ UNCHANGED <<queue, pending, events>>

\* The user updates the spec of u, or a handler's TemporaryError comes due:
\* a new cause.
Event(u) ==
    /\ phase[u] = "live" /\ events < MaxEvents /\ ~pending[u]
    /\ pending' = [pending EXCEPT ![u] = TRUE]
    /\ events' = events + 1
    /\ UNCHANGED <<hvars, queue, running>>

\* The user deletes u: delete_bind9_instance becomes the pending cause.
Delete(u) ==
    /\ HD!Delete(u)
    /\ pending' = [pending EXCEPT ![u] = TRUE]
    /\ UNCHANGED <<queue, running, events>>

\* kopf sets the stop flag of u's daemon.
Stop(u) ==
    /\ HD!Stop(u)
    /\ UNCHANGED pvars

\* kopf removes its finalizer once the delete handler has returned and the
\* daemon's call is over.
Finish(u) ==
    /\ HD!Finish(u)
    /\ ~pending[u] /\ ~InFlight(Handler(u)) /\ ~InFlight(Daemon(u))
    /\ UNCHANGED pvars

\* The operator restarts: the pool and its queue are gone, and kopf resumes
\* every object that is not gone (resume or delete handler).
Restart ==
    /\ HD!Restart
    /\ queue' = <<>>
    /\ running' = {}
    /\ pending' = [u \in Insts |-> phase[u] # "gone"]
    /\ UNCHANGED events

Next ==
    \/ \E u \in Insts :
          \/ SubmitHandler(u) \/ SubmitDaemon(u) \/ HandlerReturns(u)
          \/ DaemonStep(u) \/ Stop(u) \/ Finish(u)
          \/ Event(u) \/ Delete(u)
    \/ StartHandler \/ StartDaemon \/ Restart

\* kopf's event loop and every worker thread are scheduled; the user and
\* restarts are not constrained.
Fairness ==
    /\ WF_vars(StartHandler) /\ WF_vars(StartDaemon)
    /\ \A u \in Insts :
          /\ WF_vars(SubmitHandler(u)) /\ WF_vars(SubmitDaemon(u))
          /\ WF_vars(HandlerReturns(u)) /\ WF_vars(DaemonStep(u))
          /\ WF_vars(Stop(u)) /\ WF_vars(Finish(u))

Spec == Init /\ [][Next]_vars /\ Fairness
-----------------------------------------------------------------------------
(***************************************************************************)
(* Properties.                                                             *)
(***************************************************************************)

\* Spec section 1: the health daemon runs "without blocking the
\* reconciliation path": every handler call kopf makes for an instance
\* eventually runs and returns.
ReconciliationNotBlocked ==
    \A u \in Insts : InFlight(Handler(u)) ~> ~InFlight(Handler(u))

\* The probe loops on their workers, with the pool in between, still
\* implement HealthDaemon, fairness included: every daemon of a live
\* instance gets a worker, and every deletion completes.
ImplementsHealthDaemon == HD!Spec
=============================================================================
