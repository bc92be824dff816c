# TLA+ models of the BIND9 DNS operator

This directory holds the TLA+ models of the operator under `src/operator`, the
TLC configurations that check them, and TLAPS proofs about them. The operator
is a kopf controller. It reconciles three custom resources:

- `Bind9Instance`, a DNS server deployment;
- `DNSZone`, a zone served by an instance;
- the ten `*Record` kinds.

It turns them into Kubernetes objects: ConfigMaps, a StatefulSet and a
Service.

## 1. The system

| Part (spec section 2) | Code | State it touches |
|---|---|---|
| Config Synthesizer | `config/bind9.py`, `config/templates.py` | none: pure functions from a spec to named.conf or a zone file |
| Validator | `utils/validation.py` | none: raises `ValueError` for a malformed record |
| Resource Applier | `kubernetes/resources.py` | the objects in the cluster: create, then patch on 409 |
| Reconciler | `handlers/instance.py`, `handlers/zone.py`, `handlers/records.py` | kopf's per-object bookkeeping: last-handled spec, status, retries, finalizer |
| Health daemon | `handlers/instance.py:74-88`, `utils/dns.py` | one loop per instance, stopped by kopf's stop flag |
| Client, bootstrap | `kubernetes/client.py`, `__main__.py` | configuration loading, kopf settings |

**How the parts interact.** kopf calls one handler per object at a time.
Every handler and the daemon are plain `def` functions, so kopf runs each call
on a thread of one executor of `settings.execution.max_workers = 10` workers
(`__main__.py:43`). Handlers of different objects run concurrently, and a
running daemon holds its worker for as long as its instance lives.

- **Instance create/resume.** `create_bind9_instance` synthesizes named.conf
  and makes three store calls in order:
  1. `create_configmap(..., "config")`;
  2. `create_bind9_statefulset`;
  3. `create_bind9_services`.

  Then it returns `phase: Ready`.
- **Instance update.** `update_bind9_instance` rewrites the ConfigMap. It then
  examines the diff to decide whether to rewrite the StatefulSet.
- **Zones.** `manage_dns_zone` writes `<zone>-zone` and then calls
  `reload_bind9_config`, which only logs.
- **Records.** The record handlers validate the record and call
  `update_zone_file`, which only logs.
- **Errors.** Any exception in a handler becomes `kopf.TemporaryError(delay=30)`,
  and kopf retries the handler. In the record handlers a `ValueError` becomes a
  `PermanentError` instead.
- **Deletion.** kopf keeps a finalizer on instances, which have a daemon and a
  delete handler, and on zones, which have a delete handler. Deletion
  completes once the delete handler has run and the daemon has exited.
- **Derived objects.** They carry owner references. The Kubernetes garbage
  collector deletes an object whose owner references all fail to resolve: the
  kind, name and uid must all match an existing owner.

## 2. Hard behaviours and hazards

PROJECT.json lists each hazard at the line where it bites, with the properties
that catch it. In short:

- **Interleavings across incarnations.** An instance can be deleted and
  re-created under the same name before the collector has run. The Applier
  then meets 409s on the old incarnation's objects:
  - it patches the ConfigMap and the StatefulSet, which merges owner
    references;
  - it leaves the Service alone.
- **A stale 409.** A 409 can be stale by the time of the patch, so the patch
  fails with 404.
- **Two controllers.** A StatefulSet patch that adds a second controller
  reference is rejected with 422.
- **Partial failures.**
  - An ApiException other than 409 on create is swallowed.
  - An update can patch the ConfigMap and then raise.
- **Crash and restart.** The operator can restart between two store calls.
  kopf then calls the resume handler.
- **Retries and liveness.** Retries are unbounded. Deletion waits on the
  daemon, so it completes only if the daemon sees the stop flag.
- **Time.** The zone serial is read from the clock at each call.
- **A bounded thread pool.** Each live instance's daemon holds one of the 10
  workers for good. Once the daemons fill the pool, every handler call waits
  in the executor's queue. Deletion still completes, because kopf sets the
  stop flag from its event loop, which needs no worker.

## 3. Modules

| Module | Models | Status |
|---|---|---|
| `Synth` | `generate_bind9_config` and `generate_zone_file` as operators | modelled |
| `Reconciler` | instance and zone handlers, the Applier, kopf, the store and collector, the daemon's lifecycle | modelled |
| `DaemonLifecycle` | what kopf promises of a resource daemon (abstract) | — |
| `HealthDaemon` | the probe loop of `monitor_bind9_health`, kopf's stop flag; implements `DaemonLifecycle` | modelled |
| `Validation` | `validate_dns_record` and the four per-type checks, with a dotted-quad reference | modelled |
| `Records` | `handle_record` with kopf's outcome bookkeeping | modelled |
| `Executor` | kopf's thread pool (`max_workers`) composed with HealthDaemon's loops and the handler calls | modelled |
| `MCReconciler`, `MCHealthDaemon`, `MCValidation`, `MCRecords`, `MCExecutor` | small constants and inputs for TLC | — |
| `ReconcilerProofs`, `ReconcilerWriteProofs`, `HealthDaemonProofs`, `RecordsProofs`, `ExecutorProofs` | TLAPS proofs | — |

### Synth

A spec is a Python dict, modelled as a function whose domain is the keys
present, so `d.get(k, default)` is `Get(d, k, default)`. The output of a
template is the record of the values substituted into it; the template text
is layout. The conversions are modelled by what they do:

- `.replace("@", ".")` on a string of tokens;
- the date serial `YYYYMMDD01` as `date * 100 + 1`.

### Reconciler

**State.**

- `phase`, `spec` and `fin`: each object's lifecycle, its spec and kopf's
  finalizer.
- kopf's bookkeeping:
  - `handled`: the last-handled spec;
  - `resume`: the resume handlers are due;
  - `pc`: the store call the running handler makes next;
  - `hdl`: the running handler;
  - `run`: the spec it was called with;
  - `rday`: the date a zone handler started;
  - `status`: the handlers that have returned.
- The store:
  - `art`: each derived object, with its owner references and body;
  - `writer`: who last wrote it.
- `daemon`: each instance's daemon.
- A fault counter, a restart counter, and `today`.

**Actions.**

- **Handler steps.** Each store call of a handler is one action:
  - `ApplyConfig` and `PatchConfig`;
  - `ApplyStatefulSet` and `PatchStatefulSet`;
  - `ApplyServices`;
  - `ApplyZoneFile` and `PatchZoneFile`.

  The action includes what the handler does next: the next call, `Return`
  (status and last-handled spec recorded) or `Retry` (TemporaryError). A create
  can end in ok, 409, "api" (an ApiException of another status) or "net" (any
  other exception). The branches follow the code exactly:
  - **create_configmap and create_bind9_statefulset:** a 409 goes on to the
    patch; "api" is swallowed and the handler goes on; "net" propagates and the
    handler retries.
  - **create_bind9_services:** a 409 is ignored and the handler returns Ready.
- **The update handler.** Its diff check follows the code. kopf's DiffItems
  are 4-tuples, so `for field, _, _ in diff` raises (`UnpackFails`).
- **kopf and the daemon.** `AddFinalizer`, `StartHandler` (the handler is
  chosen by `Cause`), `FinishDeletion`, `Restart`, `SpawnDaemon` and
  `DaemonExit`.
- **The environment.** `CreateObject`, `UpdateObject`, `DeleteObject`,
  `CollectGarbage` and `Tick`. This part is modelled from spec section 6,
  because kopf and Kubernetes are not code of this repository.

**Names.** Each derived object is identified by a triple (kind, owner name,
suffix), which stands for the f-string name. The distinct suffixes make this
injective.

**Defect variants.** `PatchedOwnersDropsNew`, `RetryPermanent`,
`DaemonIgnoresStop` and `FinishDeletionWhileRunning` are plausible defects, placed next to
the definitions they replace. They are used to confirm that each checked
property can fail.

**Action property.** `StoreWrittenForExistingObject` says that every step
changing an object in the store is made for an object that still exists.
The exception is the collector, which only removes. A handler keeps making
store calls while the user deletes its object, and the delete handler
returns at once. Only kopf's finalizer keeps a handler's late writes from
being made for an object that is gone.

**The daemon in Reconciler.** `SpawnDaemon`, `DaemonExit` and
`FinishDeletion` take kopf's lifecycle as their guards, so no property of
Reconciler is about the daemon's lifecycle itself: that is checked on the
probe loop, in `HealthDaemon` and `Executor`.

### HealthDaemon and DaemonLifecycle

`dpc[u]` is where the loop of instance u is: "off", "loop" (`while not
stopped`), "probe", "waiting" (inside `stopped.wait`) or "exited".

**Actions.**

- `LoopTest` is the while test.
- `Probe` is `test_dns_functionality` (True or False, since it catches every
  exception), the error log and the call `stopped.wait(60)`. `interval`
  records the timeout that was passed.
- `Wake` is the return of the wait. It happens on the timeout, or at once
  when the flag is set.
- kopf's part:
  - `Spawn`, with a fresh flag;
  - `Stop`, which sets the flag once the instance is being deleted;
  - `Finish`, which removes the finalizer once the daemon has returned.
- `Restart` kills every daemon.
**What is left out.** The loop's `except` branch, with its wait of 120, is
reached only if logging raises, and it is not modelled.

**Refinement.** `DaemonLifecycle` is the lifecycle Reconciler uses: off,
running, exited. `HealthDaemon` instantiates it with
`daemon <- [u |-> DaemonState(u)]`. Reconciler implements it too (above).

### Validation and Records

**Values.** A Python value is tagged: `PyStr(chars)`, `PyInt(n)` or `None`.
Truthiness is Python's.

**The A-record regex.** `IPv4Match` is what the pattern matches, stated over
the positions of the dots:

- four runs of 1-3 `\d` characters separated by three dots;
- `\d` includes decimal digits of other scripts;
- `$` also matches before a final newline.

`IsDottedQuad` is the reference: four ASCII numbers, each at most 255. It is
written independently of the matcher.

**The record handler.** `Records.Handle` is one call of `handle_record`. Its
outcome follows the code:

- valid: `update_zone_file` is called, the status becomes active, and the
  spec is handled;
- `ValueError`: PermanentError, the spec is handled and the status is
  unchanged;
- any other exception: TemporaryError, and a retry is pending.

`UpdateZoneFile` is the call to `update_zone_file`, which only logs: its
effect is the record of the call. `HandledTypes` are the ten types the module
registers a handler for. `RecordsAssumption` requires every modelled type to
be one of them.

`Edit` is the user changing a record's spec. An edit back to the
last-handled spec drops a pending retry. kopf sees no change to handle
then, so nothing is left to retry. Without this rule the model would keep
a retry pending that the operator never makes.

### Executor

`Executor` composes `HealthDaemon` (through `HD == INSTANCE HealthDaemon`,
sharing its variables) with kopf's executor.

**State.** HealthDaemon's variables, plus:

- `queue`: the calls waiting for a worker, oldest first. The
  ThreadPoolExecutor's work queue is FIFO.
- `running`: the calls on a worker.
- `pending[u]`: kopf has a cause of u whose handler is not yet called.
- `events`: a bound on updates and retries.

A call is `Handler(u)` or `Daemon(u)`.

**Actions.**

- `SubmitHandler` and `SubmitDaemon`: kopf queues a handler call (one per
  object at a time) or the daemon of a live instance.
- `StartHandler` and `StartDaemon`: an idle worker (`PoolSize` is
  `max_workers`) takes the oldest call. A daemon starts as HealthDaemon's
  `Spawn`. For an instance already being deleted, the flag is already set and
  the call returns at once.
- `HandlerReturns`: a handler call ends and frees its worker. Its store calls
  and their faults are Reconciler's; here it is one step.
- `DaemonStep`: HealthDaemon's `LoopTest`, `Probe` and `Wake`. They run only
  on the daemon's worker, and the worker is freed when the loop returns.
- `Event`, `Delete`, `Stop`, `Finish` and `Restart`:
  - `Event` is an update, or a TemporaryError coming due;
  - `Delete` makes the delete handler pending;
  - `Finish` waits for the delete handler and the daemon's call to end;
  - `Restart` empties the pool and makes every object's resume or delete
    handler pending.

**Properties.**

- `TypeOK` includes the bound that at most `MaxWorkers` calls are on
  workers.
- `ImplementsHealthDaemon`: the loops on their workers still implement
  HealthDaemon, fairness included. With the pool full of daemons, a
  deletion still completes: kopf sets the stop flag from its event loop,
  which needs no worker, the loop returns and frees its worker, and the
  delete handler then runs on it.
- `ReconciliationNotBlocked`: every handler call eventually runs. It is
  checked only where it fails (`executor_starved`).

kopf's rule of one handler call per object at a time is the guard
`~InFlight(Handler(u))` of `SubmitHandler`; it is kopf's, and no property
restates it. The defect variants are `StartHandlerNoIdleCheck` and
`DaemonStepWhileTrue`.
## 4. Runs

The first six runs use `MCReconciler`. There is one name `n1` and two instance
incarnations `i1` and `i2` (a re-creation), or one zone `z1`. There are at
most two specs per kind, two dates, at most one store fault and at most one
restart. `CHECK_DEADLOCK FALSE` is justified because the operator really does
go idle once every object has been deleted. Reconciler's `TypeOK` is in no
run: `ReconcilerProofs.TypeCorrect` proves it for every value of the
constants.

| Run | Checks | Result | What it shows |
|---|---|---|---|
| `safety` | InstanceArtifactsOwned, StoreWrittenForExistingObject | pass, 1.47M states | Every instance artifact is owned by the incarnation that last wrote it. No store write is made for an instance that is gone. This holds under re-creation, 409/404/422, faults, updates, deletion and restart. |
| `live` | EventuallyReconciled, DeletionCompletes | pass | Every live instance is eventually Ready, and every deletion completes. |
| `zone_live` | EventuallyReconciled | pass | Every zone is eventually Active. |
| `ready_recreate` | ReadyInstanceApplied | violation | After a delete and a re-create, the Service keeps only the old owner reference and is collected under a Ready instance. |
| `zone_owner` | ZoneFilesOwned | violation | The zone ConfigMap's owner reference has kind Bind9Instance, so it never resolves and the zone file is collected. |
| `update` | WorkloadFollowsSpec | violation | A change of replicas never reaches the StatefulSet: the diff unpacking raises on every retry. |
| `health` | TypeOK, LifecycleSpec | pass | Two instances' probe loops, with deletion, kopf's stop flag and two restarts, implement DaemonLifecycle, fairness included. |
| `ipv4_complete` | AcceptsAllDottedQuads | pass | Every dotted quad of at most 9 characters over `1`, `9` and `.` is accepted. |
| `records` | ValidatedBeforeApplied, SettlesUnlessRaising | pass | No spec reaches `update_zone_file` unvalidated, including non-str fields and edits. Every record whose last spec does not make validation raise is eventually handled for good. |
| `records_retry` | EventuallySettled | violation | An int `ipv4Address` raises TypeError, and the handler retries it forever. |
| `executor` | TypeOK, ImplementsHealthDaemon | pass, 172k states | Two instances, two workers, updates, deletions and a restart. The daemons fill the pool, and still every deletion completes: the daemons on their workers implement HealthDaemon, fairness included. |
| `executor_starved` | ReconciliationNotBlocked | violation | Two instances, two workers. Both daemons start and hold a worker each, and every later handler call waits in the queue forever. |

**Defects seen in the code and kept out of the runs.** PROJECT.json lists
each one as a hazard.

- **A swallowed create error.** A non-409 ApiException on create is
  swallowed, and the instance is reported Ready without its ConfigMap. A
  violation of `ReadyInstanceApplied` shows it when a fault of kind "api" is
  allowed.
- **A spec revert after a failed update.** The update patches the ConfigMap
  and then fails. If the user then reverts the spec, the ConfigMap keeps the
  abandoned spec. This is another violation of `ReadyInstanceApplied`.
- **A missing volume.** The StatefulSet mounts `<name>-zones`, which nothing
  creates.
- **A changing zone serial.** With no serial in the SOA record, a resume on a
  later day rewrites the zone file with a new date serial.
- **A dead backoff branch.** After a failed probe the daemon waits 60, like
  after a successful one. `test_dns_functionality` never raises, so the
  120-unit backoff branch is dead.
- **A stale record status.** A record edited from a valid spec to an invalid
  one keeps status active, because a PermanentError leaves the stored status
  alone.
- **Over-permissive IPv4 matching.** The pattern bounds each group to three
  digits, not to 255: TLC found `9.9.999.9` accepted, against the reference
  `IsDottedQuad` over the alphabet `9` and `.`. The repository's own test
  `test_invalid_a_record` fails on it. Also, `\d` matches non-ASCII digits
  and `$` matches before a final newline. So `1.1.\u0663.1` and `1.1.1.1`
  followed by a newline both pass the A-record check.

**Why the bounds are enough.**

- **Re-creation.** Two incarnations of one name is the smallest instance in
  which re-creation, 409s on another incarnation's objects, and the
  collector's owner resolution occur.
- **Faults.** One fault of each kind reaches every error branch.
- **Restart.** One restart reaches the resume path at every step of a
  handler.
- **Specs and dates.** Two specs give an update and a revert; two dates give
  a changing clock.

**Liveness runs.** The liveness runs use the instances alone or the zone
alone. The two kinds share no state in the code. The instance liveness run
uses one spec, because with updates the update handler never returns (the
`update` run).

**Fairness.** Weak fairness is assumed of:

- each object's kopf worker (`Operator(u)`): kopf keeps retrying a handler
  that raised TemporaryError and keeps processing its queue;
- each daemon's step: kopf starts the daemon, and a running daemon tests the
  stop flag every cycle;
- the collector.

No fairness is assumed of the user, of restarts or of the clock.

In HealthDaemon:

- **The daemon thread.** It gets weak fairness, because kopf runs it in its
  own thread.
- **kopf's spawn, stop and finalizer removal.** Each gets weak fairness of its
  own. kopf sets the flag independently of the loop, so one fairness
  condition over the whole daemon would let the loop starve `Stop`.

In Records, the handler is weakly fair, because kopf keeps calling it while
the spec is unhandled.

In Executor, weak fairness is assumed of:

- kopf's submissions, stop and finalizer removal;
- a worker taking the oldest call;
- a handler call returning;
- each daemon step.

A queued call does not get fairness of its own. It runs only when the
queue's order and an idle worker allow, as in a ThreadPoolExecutor.

**Executor bounds.** The code's pool has 10 workers. The model scales it
down with the number of instances:

- two instances and two workers let the daemons fill the pool, which both
  runs need: `executor` for a deletion under a full pool,
  `executor_starved` for the starvation.

The starvation needs only as many live instances as workers. Zone and record
handlers share the same pool, so they can only add to the queue. One event
and one restart give an update while the pool is full, and a resume.

**HealthDaemon and Validation bounds.**

- **Two instances and two restarts.** They give a restart during every stage
  of the loop.
- **The string alphabet.** `1`, `9` and `.` is the smallest alphabet with
  a valid three-digit group (`199`) and an invalid one (`999`). A length of 9
  allows a three-digit group in a quad.

## 5. Proofs (TLAPS)

`ReconcilerProofs` proves two theorems for every value of the constants. The
only assumption is `ConstAssumption`:

- the instance and zone uids are disjoint;
- `NameOf` maps uids to names;
- the dates are naturals;
- the fault kinds are "api" and "net";
- the bounds are naturals.

**`TypeCorrect`: `Spec => []TypeOK`.** TypeOK is not inductive by itself. A
handler step writes a body computed from `run[u]` and an owner reference of
`u`. These are well typed only because a running handler is at a store call
of its object's kind, with a spec of that kind. The inductive invariant `IInv`
is TypeOK plus two facts:

- `SpecInv`: the specs of an object are of its kind;
- `HandlerInv`: `pc[u] # "idle"` implies that `run[u]` and `hdl[u]` are set,
  and the step is of u's kind.

There is one lemma per action. The handler steps share `HandlerFrame`, a
store write followed by `Continue`.

**`ArtifactsOwned`: `Spec => []InstanceArtifactsOwned`.** This is strengthened
by `OwnInv`: an instance artifact of name n in the store was last written by a
Bind9Instance named n, and its owner reference is among the object's owners.
The argument has three parts:

- create writes the reference;
- the merge-patch (`PatchedOwners`, a union) keeps it;
- zone handlers write only `<zone>-zone`, which is no instance artifact, and
  the collector only removes.

TLC checked both invariants as invariants of the safety and zone runs before
they were proved.

**`HealthDaemonProofs`.** It rests on `HealthAssumption`. It proves two
theorems:

- **`TypeCorrect`.** The loop's state stays in its types.
- **`Refinement`: `Spec => LifecycleSafety`.** The loop implements the safety
  part of `DaemonLifecycle`. The proof has three parts:
  - initial states map to initial states;
  - a step maps to a step or a stutter (`StepRefines`);
  - the inductive invariant.

  The invariant is TypeOK plus `StopOnlyWhenDeleted`: the flag of a running
  daemon is set only once its instance is not live. That conjunct makes the
  loop's return, which is `LoopTest` with the flag set, a lifecycle `Exit`.
  The fairness part of the refinement is checked by TLC (`LifecycleSpec` in
  the `health` run).

**`ReconcilerWriteProofs`: `WritesForExistingObjects`, `Spec =>
StoreWrittenForExistingObject`.** This is an action property. Every object a
handler puts in the store is written for a Bind9Instance or DNSZone that
still exists. It extends `ReconcilerProofs`, whose `IInv` it uses. It rests
on the invariant `RunningHandlerAlive`: a running handler's object exists
and carries kopf's finalizer. TLC checked that invariant on the safety
instance before it was proved. The invariant holds for four reasons:

- kopf starts a handler only with its finalizer on;
- a deletion with the finalizer on only marks the object;
- kopf removes the finalizer only once no handler of the object runs;
- a restart stops every handler.

Two lemmas carry the step:
- `HandlerStepLocal`: a handler step moves only its own program counter and
  leaves the objects alone;
- `HandlerStepWrites`: it changes only objects it writes under its own uid.

**`ExecutorProofs`.** It rests on `ExecutorAssumption`, which says the pool
has at least one worker. It proves three theorems for every pool size and
every set of instances:

- **`TypeCorrect`.** The bound `Cardinality(running) <= MaxWorkers` is part
  of it.

It comes from the inductive invariant `IInv`: TypeOK, `IsFiniteSet(running)`
and `DaemonHoldsWorker`, which says that the daemon of u holds a worker
exactly while u's loop runs. The finiteness conjunct is needed because
TypeOK bounds a cardinality; `DaemonHoldsWorker` is needed by the
refinement below, since a loop step must be on the daemon's worker. Taking and freeing a worker are the lemmas `TakeWorker` and
`FreeWorker`, from `FS_AddElement` and `FS_Subset`.

- **`RefinesHealthDaemon`.** Every pool step is a HealthDaemon step or leaves
  the loops' state alone. This is the safety part of
  `ImplementsHealthDaemon`.
- **`PoolKeepsDaemonLifecycle`.** It instantiates `HealthDaemonProofs` and
  applies its `StepRefines` and invariant to the HealthDaemon steps that the
  pool's steps are. So, with the pool around them, the loops still implement
  the safety part of `DaemonLifecycle`. This is a two-level refinement:
  Executor to HealthDaemon to DaemonLifecycle.
**`RecordsProofs`: `ValidatedBeforeAppliedHolds`, `Spec =>
[]ValidatedBeforeApplied`.** This holds for every set of records, types and
specs. The invariant is inductive as it stands:

- `handle_record` calls `update_zone_file` only in its "ok" branch, with the
  spec it validated;
- the other branches and the user's edits leave the calls alone.

The proof splits `Handle` on whether `applied` grows. It never expands the
validators.

**What stays with TLC.**

- Liveness (`EventuallyReconciled`, `DeletionCompletes`,
  `SettlesUnlessRaising`, `ReconciliationNotBlocked`, and the fairness part of
  `LifecycleSpec` and `ImplementsHealthDaemon`) depends on fairness and ENABLED,
  which the prover does not handle.
- `Validation` is checked only over bounded strings. It is a property of the
  regex for every input, but proving it would need induction over data,
  which the prover cannot instantiate.
- The violation runs are counterexamples, not theorems.

## 6. Not modelled, and why

- **`reload_bind9_config` and `update_zone_file`.** They only log, so no state
  changes. In particular, records never reach a zone file, and the
  zone/record last-write-wins race of spec section 5 cannot happen in this
  code.
- **`templates.py`.** Layout only.
- **`client.py`.** Configuration loading. Its failures are the "net" outcome
  of every store call.
- **`__main__.py`.** Only `max_workers` is modelled (`Executor`). The other
  settings and login configure the process. They include the watch
  timeouts, event posting and mandatory peering, so a second operator
  instance stays idle. None of them changes state the handlers read.
- **The `<name>-headless` Service.** It is referenced by the StatefulSet and
  never created. Nothing in the code reads it, so no property is about it.

## 7. Plan for the next sittings

1. **Zone status serial.** The serial in the zone's status is a second clock
   read (zone.py:34). It ignores `soaRecord.serial`, so it can differ from
   the serial in the file. This needs a status field in Reconciler and a run.
   The twelve runs are all in use, so it would have to replace one.
2. **More proofs.** The liveness properties stay with TLC (section 5).
   What the pool adds to the reconciler's safety needs the composition
   below first.
3. **Composition.** Zone and record handlers in `Executor`'s queue, and
   Reconciler's daemon replaced by `Executor`.
