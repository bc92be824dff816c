------------------------ MODULE ReconcilerWriteProofs ------------------------
(***************************************************************************)
(* Proof, for every value of Reconciler's constants, that every object a   *)
(* handler puts in the store is put there for a Bind9Instance or DNSZone  *)
(* that still exists (StoreWrittenForExistingObject).                      *)
(*                                                                         *)
(* The action property follows from an invariant: a running handler's     *)
(* object exists and has kopf's finalizer.  kopf calls a handler only     *)
(* with its finalizer on, deletion with the finalizer on only marks the    *)
(* object, and kopf removes the finalizer only once no handler of the     *)
(* object is running.  A restart stops every handler.                      *)
(***************************************************************************)
EXTENDS ReconcilerProofs

\* A running handler of u is running for an object that exists and carries
\* kopf's finalizer.
RunningHandlerAlive ==
    \A u \in Uids : pc[u] # "idle" => fin[u] /\ Alive(u)

WInv == IInv /\ RunningHandlerAlive

\* The outcomes of a create call are those the handlers branch on.
LEMMA CreateOutcomesCases ==
    ASSUME NEW a, NEW o \in CreateOutcomes(a)
    PROVE  o \in {"ok", "conflict", "api", "net"}
  BY FaultsIn DEF CreateOutcomes

\* A handler step moves the program counter of its own handler only, and
\* leaves the objects, their finalizers and their specs alone.
LEMMA HandlerStepLocal ==
    ASSUME IInv, NEW u \in Uids, HandlerStep(u)
    PROVE  /\ pc[u] # "idle"
           /\ UNCHANGED objVars
           /\ \A v \in Uids \ {u} : pc'[v] = pc[v]
  <1> USE DEF IInv, TypeOK
  <1>1. CASE ApplyConfig(u)
    BY <1>1, CreateOutcomesCases
       DEF ApplyConfig, Goto, Return, Retry, AfterConfig, AfterUpdateConfig
  <1>2. CASE PatchConfig(u)
    BY <1>2 DEF PatchConfig, Return, Retry, AfterConfig, AfterUpdateConfig, Goto
  <1>3. CASE ApplyStatefulSet(u)
    BY <1>3, CreateOutcomesCases
       DEF ApplyStatefulSet, Goto, Return, Retry, AfterStatefulSet
  <1>4. CASE PatchStatefulSet(u)
    BY <1>4 DEF PatchStatefulSet, Return, Retry, AfterStatefulSet, Goto
  <1>5. CASE ApplyServices(u)
    BY <1>5 DEF ApplyServices, Return, Retry
  <1>6. CASE ApplyZoneFile(u)
    BY <1>6, CreateOutcomesCases DEF ApplyZoneFile, Goto, Return, Retry
  <1>7. CASE PatchZoneFile(u)
    BY <1>7 DEF PatchZoneFile, Return, Retry
  <1>. QED
    BY <1>1, <1>2, <1>3, <1>4, <1>5, <1>6, <1>7 DEF HandlerStep

\* A store call on behalf of the handler of u changes no object in the
\* store but the one it names, and that one only to an object written by u.
LEMMA WriteBy ==
    ASSUME StoreTyped, NEW u, NEW a \in ArtNames, NEW o, NEW owners, NEW body,
           Write(u, a, o, owners, body)
    PROVE  \A b \in ArtNames :
              art'[b] # art[b] \/ writer'[b] # writer[b] => writer'[b].uid = u
  BY DEF Write, StoreTyped

\* So every object a handler step changes is written by that handler.
LEMMA HandlerStepWrites ==
    ASSUME IInv, NEW u \in Uids, HandlerStep(u)
    PROVE  \A b \in ArtNames :
              art'[b] # art[b] \/ writer'[b] # writer[b] => writer'[b].uid = u
  <1>1. StoreTyped
    BY IInvParts
  <1>2. \E a \in ArtNames : \E o, owners, body : Write(u, a, o, owners, body)
    <2>1. CM(NameOf[u], "config") \in ArtNames /\ STS(NameOf[u]) \in ArtNames
          /\ SVC(NameOf[u]) \in ArtNames /\ CM(NameOf[u], "zone") \in ArtNames
      BY ArtNamesOf
    <2>. QED
      BY <2>1 DEF HandlerStep, ApplyConfig, PatchConfig, ApplyStatefulSet,
                  PatchStatefulSet, ApplyServices, ApplyZoneFile, PatchZoneFile
  <1>. QED
    BY <1>1, <1>2, WriteBy

LEMMA InitWInv == Init => WInv
  BY InitIInv DEF Init, WInv, RunningHandlerAlive

\* Only kopf starts a handler, and only for a live object with its
\* finalizer on; deletion then only marks the object; the finalizer goes
\* only from an object with no running handler; a restart stops them all.
LEMMA NextRunningAlive == WInv /\ [Next]_vars => RunningHandlerAlive'
  <1> SUFFICES ASSUME WInv, [Next]_vars PROVE RunningHandlerAlive'
    OBVIOUS
  <1> USE DEF WInv, IInv, TypeOK, RunningHandlerAlive, Alive
  <1>1. ASSUME NEW u \in Uids, AddFinalizer(u) PROVE RunningHandlerAlive'
    BY <1>1 DEF AddFinalizer, kopfVars
  <1>2. ASSUME NEW u \in Uids, StartHandler(u) PROVE RunningHandlerAlive'
    BY <1>2 DEF StartHandler, objVars
  <1>3. ASSUME NEW u \in Uids, HandlerStep(u) PROVE RunningHandlerAlive'
    BY <1>3, HandlerStepLocal DEF objVars
  <1>4. ASSUME NEW u \in Uids, FinishDeletion(u) PROVE RunningHandlerAlive'
    BY <1>4 DEF FinishDeletion, kopfVars
  <1>5. ASSUME NEW u \in Uids, DeleteObject(u) PROVE RunningHandlerAlive'
    BY <1>5 DEF DeleteObject, kopfVars
  <1>6. ASSUME NEW u \in Uids, NEW sp \in SpecsOf(u),
               CreateObject(u, sp) \/ UpdateObject(u, sp)
        PROVE  RunningHandlerAlive'
    BY <1>6 DEF CreateObject, UpdateObject, kopfVars
  <1>7. ASSUME NEW u \in InstUids, DaemonStep(u) PROVE RunningHandlerAlive'
    BY <1>7 DEF DaemonStep, SpawnDaemon, DaemonExit, objVars, kopfVars
  <1>8. ASSUME NEW a \in ArtNames, CollectGarbage(a) PROVE RunningHandlerAlive'
    BY <1>8 DEF CollectGarbage, objVars, kopfVars
  <1>9. CASE Restart
    BY <1>9 DEF Restart, objVars
  <1>10. CASE Tick \/ UNCHANGED vars
    BY <1>10 DEF Tick, vars, objVars, kopfVars
  <1>. QED
    BY <1>1, <1>2, <1>3, <1>4, <1>5, <1>6, <1>7, <1>8, <1>9, <1>10
       DEF Next, Operator

LEMMA NextWInv == WInv /\ [Next]_vars => WInv'
  BY NextIInv, NextRunningAlive DEF WInv

\* A step under the invariant writes to the store only for an object that
\* exists: a handler writes for its own object, which RunningHandlerAlive
\* keeps alive; the collector only removes; nothing else touches the store.
LEMMA StepWritesForExisting ==
    WInv /\ [Next]_vars =>
        \A a \in ArtNames :
            art'[a] # None /\ (art'[a] # art[a] \/ writer'[a] # writer[a])
                => Alive(writer'[a].uid)
  <1> SUFFICES ASSUME WInv, [Next]_vars, NEW a \in ArtNames, art'[a] # None,
                      art'[a] # art[a] \/ writer'[a] # writer[a]
               PROVE  Alive(writer'[a].uid)
    OBVIOUS
  <1>1. ASSUME NEW u \in Uids, HandlerStep(u) PROVE Alive(writer'[a].uid)
    <2>1. writer'[a].uid = u
      BY <1>1, HandlerStepWrites DEF WInv
    <2>2. pc[u] # "idle" /\ UNCHANGED objVars
      BY <1>1, HandlerStepLocal DEF WInv
    <2>. QED
      BY <2>1, <2>2 DEF WInv, RunningHandlerAlive, Alive
  <1>2. ASSUME NEW b \in ArtNames, CollectGarbage(b) PROVE FALSE
    BY <1>2 DEF CollectGarbage, WInv, IInv, TypeOK
  <1>3. ASSUME ~\E u \in Uids : HandlerStep(u),
               ~\E b \in ArtNames : CollectGarbage(b)
        PROVE  UNCHANGED storeVars
    BY <1>3 DEF Next, Operator, AddFinalizer, StartHandler, FinishDeletion,
                DeleteObject, CreateObject, UpdateObject, DaemonStep,
                SpawnDaemon, DaemonExit, Restart, Tick, vars
  <1>. QED
    BY <1>1, <1>2, <1>3 DEF storeVars

\* Spec sections 5 and 6 (StoreWrittenForExistingObject, checked by the
\* safety run), for every value of the constants: whatever the
\* interleaving of handlers, deletions, store failures, restarts and
\* garbage collection, no handler puts an object in the store for a
\* Bind9Instance or DNSZone that is gone or not created yet.
THEOREM WritesForExistingObjects == Spec => StoreWrittenForExistingObject
  <1>1. Spec => []WInv
    BY InitWInv, NextWInv, PTL DEF Spec
  <1> DEFINE WritesOk == \A a \in ArtNames :
                  art'[a] # None /\ (art'[a] # art[a] \/ writer'[a] # writer[a])
                      => Alive(writer'[a].uid)
  <1>2. WInv /\ [Next]_vars => [WritesOk]_vars
    BY StepWritesForExisting
  <1>. QED
    BY <1>1, <1>2, PTL DEF Spec, StoreWrittenForExistingObject
=============================================================================
