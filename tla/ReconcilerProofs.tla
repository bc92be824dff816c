-------------------------- MODULE ReconcilerProofs --------------------------
(***************************************************************************)
(* Proofs about Reconciler for every value of its constants.               *)
(*                                                                         *)
(* TypeOK is not inductive by itself: a handler step writes the body       *)
(* computed from run[u] and the owner reference of u, which are well typed *)
(* only because a running handler of an instance is at an instance store  *)
(* call with an instance spec, and likewise for zones.  HandlerInv states  *)
(* this link between pc, hdl and run.                                      *)
(***************************************************************************)
EXTENDS Reconciler, TLAPS

InstSteps == {"cfg", "cfgPatch", "sts", "stsPatch", "svc"}
ZoneSteps == {"zone", "zonePatch"}

\* What the specs of an object can be.
SpecInv ==
    \A u \in Uids :
        /\ phase[u] # "absent" => spec[u] \in SpecsOf(u)
        /\ handled[u] \in SpecsOf(u) \cup {None}

\* A running handler of u has a handler name, a spec of u's kind, and is at
\* a store call of u's kind.
HandlerInv ==
    \A u \in Uids :
        /\ pc[u] # "idle" => run[u] \in SpecsOf(u) /\ hdl[u] \in Handlers
        /\ pc[u] \in InstSteps => u \in InstUids
        /\ pc[u] \in ZoneSteps => u \in ZoneUids

IInv == TypeOK /\ SpecInv /\ HandlerInv

\* TypeOK in four groups: the objects, kopf's bookkeeping, the store, and
\* the daemons and environment.
ObjTyped ==
    /\ phase \in [Uids -> {"absent", "live", "deleting", "gone"}]
    /\ spec \in [Uids -> InstSpecs \cup ZoneSpecs \cup {None}]
    /\ fin \in [Uids -> BOOLEAN]
KopfTyped ==
    /\ handled \in [Uids -> InstSpecs \cup ZoneSpecs \cup {None}]
    /\ resume \in [Uids -> BOOLEAN]
    /\ pc \in [Uids -> Steps]
    /\ hdl \in [Uids -> Handlers \cup {None}]
    /\ run \in [Uids -> InstSpecs \cup ZoneSpecs \cup {None}]
    /\ rday \in [ZoneUids -> Dates]
    /\ status \in [Uids -> SUBSET Handlers]
StoreTyped ==
    /\ art \in [ArtNames -> Artifact \cup {None}]
    /\ writer \in [ArtNames -> Writer \cup {None}]
EnvTyped ==
    /\ daemon \in [InstUids -> DaemonStates]
    /\ faults \in 0..MaxFaults
    /\ restarts \in 0..MaxRestarts
    /\ today \in Dates

\* The part of IInv about kopf's bookkeeping.
KopfInv ==
    /\ KopfTyped
    /\ HandlerInv
    /\ \A u \in Uids : handled[u] \in SpecsOf(u) \cup {None}

\* The part of IInv about the objects.
ObjInv ==
    /\ ObjTyped
    /\ \A u \in Uids : phase[u] # "absent" => spec[u] \in SpecsOf(u)

LEMMA IInvParts == IInv <=> ObjInv /\ KopfInv /\ StoreTyped /\ EnvTyped
  BY Zenon DEF IInv, TypeOK, SpecInv, ObjInv, KopfInv, ObjTyped, KopfTyped,
               StoreTyped, EnvTyped

\* The specs of an object are the specs of its kind.
LEMMA SpecsOfKind ==
    ASSUME NEW u \in Uids
    PROVE  /\ u \in InstUids => SpecsOf(u) = InstSpecs
           /\ u \in ZoneUids => SpecsOf(u) = ZoneSpecs
           /\ SpecsOf(u) \subseteq InstSpecs \cup ZoneSpecs
  BY ConstAssumption DEF SpecsOf, Uids

\* The names of the derived objects of an object are names of the store.
LEMMA ArtNamesOf ==
    ASSUME NEW u \in Uids
    PROVE  /\ CM(NameOf[u], "config") \in ArtNames
           /\ STS(NameOf[u]) \in ArtNames
           /\ SVC(NameOf[u]) \in ArtNames
           /\ CM(NameOf[u], "zone") \in ArtNames
  <1>1. NameOf[u] \in Names
    BY ConstAssumption
  <1>. QED
    BY <1>1 DEF ArtNames, InstArts

\* The owner references the handlers of u write.
LEMMA RefTyped ==
    ASSUME NEW u \in Uids, NEW c \in BOOLEAN
    PROVE  Ref(u, c) \in OwnerRefs
  BY ConstAssumption DEF Ref, OwnerRefs

\* A merge-patch of owner references keeps them owner references.
LEMMA PatchedOwnersTyped ==
    ASSUME NEW old \in SUBSET OwnerRefs, NEW refs \in SUBSET OwnerRefs
    PROVE  PatchedOwners(old, refs) \in SUBSET OwnerRefs
  BY DEF PatchedOwners

THEOREM InitIInv == Init => IInv
  <1> SUFFICES ASSUME Init PROVE IInv
    OBVIOUS
  <1>1. ObjInv
    BY ConstAssumption DEF Init, ObjInv, ObjTyped
  <1>2. KopfTyped
    BY DEF Init, KopfTyped, Steps
  <1>3. HandlerInv
    BY DEF Init, HandlerInv, InstSteps, ZoneSteps
  <1>4. \A u \in Uids : handled[u] \in SpecsOf(u) \cup {None}
    BY DEF Init
  <1>5. StoreTyped
    BY DEF Init, StoreTyped
  <1>6. EnvTyped
    BY ConstAssumption DEF Init, EnvTyped, DaemonStates
  <1>. QED
    BY <1>1, <1>2, <1>3, <1>4, <1>5, <1>6, IInvParts DEF KopfInv
-----------------------------------------------------------------------------
(* Handler steps.                                                          *)

\* How a running handler of u may go on: to another store call of its own
\* kind, returning, or raising TemporaryError.
Continue(u) ==
    \/ \E st \in InstSteps : u \in InstUids /\ Goto(u, st)
    \/ \E st \in ZoneSteps : u \in ZoneUids /\ Goto(u, st)
    \/ Return(u)
    \/ Retry(u)

\* Going on from a store call keeps kopf's bookkeeping well formed.
LEMMA ContinueKopfInv ==
    ASSUME KopfInv, NEW u \in Uids, pc[u] # "idle", Continue(u)
    PROVE  KopfInv'
  <1>1. run[u] \in SpecsOf(u) /\ hdl[u] \in Handlers
    BY DEF KopfInv, HandlerInv
  <1>2. SpecsOf(u) \subseteq InstSpecs \cup ZoneSpecs
    BY SpecsOfKind
  <1>3. CASE \E st \in InstSteps : u \in InstUids /\ Goto(u, st)
    <2>. PICK st \in InstSteps : u \in InstUids /\ Goto(u, st)
      BY <1>3
    <2>. QED
      BY <1>1 DEF KopfInv, KopfTyped, HandlerInv, Goto, InstSteps, ZoneSteps, Steps
  <1>4. CASE \E st \in ZoneSteps : u \in ZoneUids /\ Goto(u, st)
    <2>. PICK st \in ZoneSteps : u \in ZoneUids /\ Goto(u, st)
      BY <1>4
    <2>. QED
      BY <1>1 DEF KopfInv, KopfTyped, HandlerInv, Goto, InstSteps, ZoneSteps, Steps
  <1>5. CASE Return(u)
    BY <1>1, <1>2, <1>5 DEF KopfInv, KopfTyped, HandlerInv, Return, Steps,
                            InstSteps, ZoneSteps
  <1>6. CASE Retry(u)
    BY <1>6 DEF KopfInv, KopfTyped, HandlerInv, Retry, Steps, InstSteps, ZoneSteps
  <1>. QED
    BY <1>3, <1>4, <1>5, <1>6 DEF Continue

\* The outcomes a store call can have.
Outcomes == {"ok", "conflict", "notfound", "invalid"} \cup Faults

\* A store call on a derived object keeps the store well formed and the
\* failure count within its bound.
LEMMA WriteTyped ==
    ASSUME StoreTyped, EnvTyped, NEW u \in Uids, NEW a \in ArtNames,
           NEW o \in Outcomes, NEW owners, NEW body \in Bodies,
           o = "ok" => owners \in SUBSET OwnerRefs,
           run[u] \in InstSpecs \cup ZoneSpecs,
           Write(u, a, o, owners, body)
    PROVE  StoreTyped' /\ faults' \in 0..MaxFaults
  <1>1. StoreTyped'
    BY DEF StoreTyped, Write, Artifact, Writer
  <1>2. faults' \in 0..MaxFaults
    BY ConstAssumption DEF EnvTyped, Write, Outcomes, Faults
  <1>. QED
    BY <1>1, <1>2

\* The create calls of a handler have an outcome of the store.
LEMMA CreateOutcomesIn ==
    ASSUME NEW a PROVE CreateOutcomes(a) \subseteq Outcomes
  BY DEF CreateOutcomes, Outcomes

\* The fault outcomes are "api" and "net".
LEMMA FaultsIn == Faults \subseteq {"api", "net"}
  BY ConstAssumption DEF Faults

\* A patch succeeds only on an existing object, so its merged owner
\* references are owner references.
LEMMA PatchOkOwners ==
    ASSUME StoreTyped, NEW a \in ArtNames, NEW refs \in SUBSET OwnerRefs,
           NEW o \in PatchOutcomes(a, refs), o = "ok"
    PROVE  /\ o \in Outcomes
           /\ PatchedOwners(art[a].owners, refs) \in SUBSET OwnerRefs
  <1>1. art[a] # None
    BY FaultsIn DEF PatchOutcomes
  <1>2. art[a].owners \in SUBSET OwnerRefs
    BY <1>1 DEF StoreTyped, Artifact
  <1>. QED
    BY <1>2, PatchedOwnersTyped DEF Outcomes

\* Every outcome of a patch is an outcome of the store.
LEMMA PatchOutcomesIn ==
    ASSUME NEW a, NEW refs PROVE PatchOutcomes(a, refs) \subseteq Outcomes
  BY DEF PatchOutcomes, Outcomes

\* What the instance handlers do after a ConfigMap or StatefulSet call.
LEMMA AfterConfigContinue ==
    ASSUME NEW u \in InstUids, AfterConfig(u) PROVE Continue(u)
  BY DEF AfterConfig, AfterUpdateConfig, Continue, InstSteps

LEMMA AfterStatefulSetContinue ==
    ASSUME NEW u \in InstUids, AfterStatefulSet(u) PROVE Continue(u)
  BY DEF AfterStatefulSet, Continue, InstSteps

\* A running instance handler is at an instance store call with an
\* instance spec, and a running zone handler likewise.
LEMMA RunningKind ==
    ASSUME IInv, NEW u \in Uids
    PROVE  /\ pc[u] \in InstSteps => u \in InstUids /\ run[u] \in InstSpecs
           /\ pc[u] \in ZoneSteps => u \in ZoneUids /\ run[u] \in ZoneSpecs
  <1>1. pc[u] \in InstSteps \cup ZoneSteps => pc[u] # "idle"
    BY DEF InstSteps, ZoneSteps
  <1>. QED
    BY <1>1, SpecsOfKind DEF IInv, HandlerInv

\* A handler step: one store call, then going on.
LEMMA HandlerFrame ==
    ASSUME IInv, NEW u \in Uids, pc[u] # "idle",
           NEW a \in ArtNames, NEW o \in Outcomes, NEW owners,
           NEW body \in Bodies,
           o = "ok" => owners \in SUBSET OwnerRefs,
           Write(u, a, o, owners, body),
           Continue(u),
           UNCHANGED <<objVars, daemonVars, restarts, today>>
    PROVE  IInv'
  <1>1. ObjInv /\ KopfInv /\ StoreTyped /\ EnvTyped
    BY IInvParts
  <1>2. ObjInv'
    BY <1>1 DEF ObjInv, ObjTyped, objVars
  <1>3. KopfInv'
    BY <1>1, ContinueKopfInv
  <1>4. run[u] \in InstSpecs \cup ZoneSpecs
    BY <1>1, SpecsOfKind DEF KopfInv, HandlerInv
  <1>5. StoreTyped' /\ faults' \in 0..MaxFaults
    BY <1>1, <1>4, WriteTyped
  <1>6. EnvTyped'
    BY <1>1, <1>5 DEF EnvTyped, daemonVars
  <1>. QED
    BY <1>2, <1>3, <1>5, <1>6 DEF IInv, TypeOK, SpecInv, ObjInv, KopfInv, ObjTyped, KopfTyped,
               StoreTyped, EnvTyped
LEMMA ApplyConfigInv ==
    ASSUME IInv, NEW u \in Uids, ApplyConfig(u) PROVE IInv'
  <1> DEFINE a == CM(NameOf[u], "config")
  <1>1. u \in InstUids /\ run[u] \in InstSpecs /\ pc[u] # "idle"
    BY RunningKind DEF ApplyConfig, InstSteps
  <1>2. PICK o \in CreateOutcomes(a) :
          /\ Write(u, a, o, {Ref(u, FALSE)}, CfgBody(u, run[u]))
          /\ CASE o = "conflict"      -> Goto(u, "cfgPatch")
               [] o \in {"ok", "api"} -> AfterConfig(u)
               [] o = "net"           -> Retry(u)
    BY DEF ApplyConfig
  <1>3. Continue(u)
    <2>1. o \in {"ok", "conflict", "api", "net"}
      BY FaultsIn DEF CreateOutcomes
    <2>2. CASE o = "conflict"
      BY <1>1, <1>2, <2>2 DEF Continue, InstSteps
    <2>3. CASE o \in {"ok", "api"}
      BY <1>1, <1>2, <2>3, AfterConfigContinue
    <2>4. CASE o = "net"
      BY <1>2, <2>4 DEF Continue
    <2>. QED
      BY <2>1, <2>2, <2>3, <2>4
  <1>4. CfgBody(u, run[u]) \in Bodies
    BY <1>1 DEF Bodies
  <1>5. UNCHANGED <<objVars, daemonVars, restarts, today>>
    BY DEF ApplyConfig
  <1>6. a \in ArtNames /\ {Ref(u, FALSE)} \in SUBSET OwnerRefs /\ o \in Outcomes
    BY ArtNamesOf, RefTyped, CreateOutcomesIn
  <1>. QED
    BY <1>1, <1>2, <1>3, <1>4, <1>5, <1>6, HandlerFrame

LEMMA PatchConfigInv ==
    ASSUME IInv, NEW u \in Uids, PatchConfig(u) PROVE IInv'
  <1> DEFINE a == CM(NameOf[u], "config")
             refs == {Ref(u, FALSE)}
  <1>1. u \in InstUids /\ run[u] \in InstSpecs /\ pc[u] # "idle"
    BY RunningKind DEF PatchConfig, InstSteps
  <1>2. PICK o \in PatchOutcomes(a, refs) :
          /\ Write(u, a, o, PatchedOwners(art[a].owners, refs), CfgBody(u, run[u]))
          /\ IF o = "ok" THEN AfterConfig(u) ELSE Retry(u)
    BY DEF PatchConfig
  <1>3. Continue(u)
    BY <1>1, <1>2, AfterConfigContinue DEF Continue
  <1>4. CfgBody(u, run[u]) \in Bodies
    BY <1>1 DEF Bodies
  <1>5. a \in ArtNames /\ refs \in SUBSET OwnerRefs /\ StoreTyped
    BY ArtNamesOf, RefTyped, IInvParts
  <1>6. o = "ok" => PatchedOwners(art[a].owners, refs) \in SUBSET OwnerRefs
    BY <1>5, PatchOkOwners
  <1>7. UNCHANGED <<objVars, daemonVars, restarts, today>>
    BY DEF PatchConfig
  <1>. QED
    BY <1>1, <1>2, <1>3, <1>4, <1>5, <1>6, <1>7, PatchOutcomesIn, HandlerFrame
LEMMA ApplyStatefulSetInv ==
    ASSUME IInv, NEW u \in Uids, ApplyStatefulSet(u) PROVE IInv'
  <1> DEFINE a == STS(NameOf[u])
  <1>1. u \in InstUids /\ run[u] \in InstSpecs /\ pc[u] # "idle"
    BY RunningKind DEF ApplyStatefulSet, InstSteps
  <1>2. PICK o \in CreateOutcomes(a) :
          /\ Write(u, a, o, {Ref(u, TRUE)}, StsBody(u, run[u]))
          /\ CASE o = "conflict"      -> Goto(u, "stsPatch")
               [] o \in {"ok", "api"} -> AfterStatefulSet(u)
               [] o = "net"           -> Retry(u)
    BY DEF ApplyStatefulSet
  <1>3. Continue(u)
    <2>1. o \in {"ok", "conflict", "api", "net"}
      BY FaultsIn DEF CreateOutcomes
    <2>2. CASE o = "conflict"
      BY <1>1, <1>2, <2>2 DEF Continue, InstSteps
    <2>3. CASE o \in {"ok", "api"}
      BY <1>1, <1>2, <2>3, AfterStatefulSetContinue
    <2>4. CASE o = "net"
      BY <1>2, <2>4 DEF Continue
    <2>. QED
      BY <2>1, <2>2, <2>3, <2>4
  <1>4. StsBody(u, run[u]) \in Bodies
    BY <1>1 DEF Bodies
  <1>5. UNCHANGED <<objVars, daemonVars, restarts, today>>
    BY DEF ApplyStatefulSet
  <1>6. a \in ArtNames /\ {Ref(u, TRUE)} \in SUBSET OwnerRefs /\ o \in Outcomes
    BY ArtNamesOf, RefTyped, CreateOutcomesIn
  <1>. QED
    BY <1>1, <1>2, <1>3, <1>4, <1>5, <1>6, HandlerFrame

LEMMA PatchStatefulSetInv ==
    ASSUME IInv, NEW u \in Uids, PatchStatefulSet(u) PROVE IInv'
  <1> DEFINE a == STS(NameOf[u])
             refs == {Ref(u, TRUE)}
  <1>1. u \in InstUids /\ run[u] \in InstSpecs /\ pc[u] # "idle"
    BY RunningKind DEF PatchStatefulSet, InstSteps
  <1>2. PICK o \in PatchOutcomes(a, refs) :
          /\ Write(u, a, o, PatchedOwners(art[a].owners, refs), StsBody(u, run[u]))
          /\ IF o = "ok" THEN AfterStatefulSet(u) ELSE Retry(u)
    BY DEF PatchStatefulSet
  <1>3. Continue(u)
    BY <1>1, <1>2, AfterStatefulSetContinue DEF Continue
  <1>4. StsBody(u, run[u]) \in Bodies
    BY <1>1 DEF Bodies
  <1>5. a \in ArtNames /\ refs \in SUBSET OwnerRefs /\ StoreTyped
    BY ArtNamesOf, RefTyped, IInvParts
  <1>6. o = "ok" => PatchedOwners(art[a].owners, refs) \in SUBSET OwnerRefs
    BY <1>5, PatchOkOwners
  <1>7. UNCHANGED <<objVars, daemonVars, restarts, today>>
    BY DEF PatchStatefulSet
  <1>. QED
    BY <1>1, <1>2, <1>3, <1>4, <1>5, <1>6, <1>7, PatchOutcomesIn, HandlerFrame

LEMMA ApplyServicesInv ==
    ASSUME IInv, NEW u \in Uids, ApplyServices(u) PROVE IInv'
  <1> DEFINE a == SVC(NameOf[u])
  <1>1. u \in InstUids /\ pc[u] # "idle"
    BY RunningKind DEF ApplyServices, InstSteps
  <1>2. PICK o \in CreateOutcomes(a) :
          /\ Write(u, a, o, {Ref(u, FALSE)}, SvcBody)
          /\ IF o \in {"ok", "conflict"} THEN Return(u) ELSE Retry(u)
    BY DEF ApplyServices
  <1>3. Continue(u)
    BY <1>2 DEF Continue
  <1>4. SvcBody \in Bodies
    BY DEF Bodies
  <1>5. UNCHANGED <<objVars, daemonVars, restarts, today>>
    BY DEF ApplyServices
  <1>6. a \in ArtNames /\ {Ref(u, FALSE)} \in SUBSET OwnerRefs /\ o \in Outcomes
    BY ArtNamesOf, RefTyped, CreateOutcomesIn
  <1>. QED
    BY <1>1, <1>2, <1>3, <1>4, <1>5, <1>6, HandlerFrame

LEMMA ApplyZoneFileInv ==
    ASSUME IInv, NEW z \in Uids, ApplyZoneFile(z) PROVE IInv'
  <1> DEFINE a == CM(NameOf[z], "zone")
  <1>1. z \in ZoneUids /\ run[z] \in ZoneSpecs /\ pc[z] # "idle"
    BY RunningKind DEF ApplyZoneFile, ZoneSteps
  <1>2. PICK o \in CreateOutcomes(a) :
          /\ Write(z, a, o, {Ref(z, FALSE)}, ZoneBody(z, run[z], rday[z]))
          /\ CASE o = "conflict"      -> Goto(z, "zonePatch")
               [] o \in {"ok", "api"} -> Return(z)
               [] o = "net"           -> Retry(z)
    BY DEF ApplyZoneFile
  <1>3. Continue(z)
    <2>1. o \in {"ok", "conflict", "api", "net"}
      BY FaultsIn DEF CreateOutcomes
    <2>2. CASE o = "conflict"
      BY <1>1, <1>2, <2>2 DEF Continue, ZoneSteps
    <2>3. CASE o \in {"ok", "api"}
      BY <1>2, <2>3 DEF Continue
    <2>4. CASE o = "net"
      BY <1>2, <2>4 DEF Continue
    <2>. QED
      BY <2>1, <2>2, <2>3, <2>4
  <1>4. ZoneBody(z, run[z], rday[z]) \in Bodies
    BY <1>1 DEF Bodies, IInv, TypeOK
  <1>5. UNCHANGED <<objVars, daemonVars, restarts, today>>
    BY DEF ApplyZoneFile
  <1>6. a \in ArtNames /\ {Ref(z, FALSE)} \in SUBSET OwnerRefs /\ o \in Outcomes
    BY ArtNamesOf, RefTyped, CreateOutcomesIn
  <1>. QED
    BY <1>1, <1>2, <1>3, <1>4, <1>5, <1>6, HandlerFrame

LEMMA PatchZoneFileInv ==
    ASSUME IInv, NEW z \in Uids, PatchZoneFile(z) PROVE IInv'
  <1> DEFINE a == CM(NameOf[z], "zone")
             refs == {Ref(z, FALSE)}
  <1>1. z \in ZoneUids /\ run[z] \in ZoneSpecs /\ pc[z] # "idle"
    BY RunningKind DEF PatchZoneFile, ZoneSteps
  <1>2. PICK o \in PatchOutcomes(a, refs) :
          /\ Write(z, a, o, PatchedOwners(art[a].owners, refs),
                   ZoneBody(z, run[z], rday[z]))
          /\ IF o = "ok" THEN Return(z) ELSE Retry(z)
    BY DEF PatchZoneFile
  <1>3. Continue(z)
    BY <1>2 DEF Continue
  <1>4. ZoneBody(z, run[z], rday[z]) \in Bodies
    BY <1>1 DEF Bodies, IInv, TypeOK
  <1>5. a \in ArtNames /\ refs \in SUBSET OwnerRefs /\ StoreTyped
    BY ArtNamesOf, RefTyped, IInvParts
  <1>6. o = "ok" => PatchedOwners(art[a].owners, refs) \in SUBSET OwnerRefs
    BY <1>5, PatchOkOwners
  <1>7. UNCHANGED <<objVars, daemonVars, restarts, today>>
    BY DEF PatchZoneFile
  <1>. QED
    BY <1>1, <1>2, <1>3, <1>4, <1>5, <1>6, <1>7, PatchOutcomesIn, HandlerFrame
-----------------------------------------------------------------------------
(* kopf, the daemon and the environment.                                   *)

LEMMA AddFinalizerInv ==
    ASSUME IInv, NEW u \in Uids, AddFinalizer(u) PROVE IInv'
  <1>1. ObjInv'
    BY DEF AddFinalizer, IInv, TypeOK, SpecInv, ObjInv, ObjTyped
  <1>2. KopfInv' /\ StoreTyped' /\ EnvTyped'
    BY DEF AddFinalizer, IInv, TypeOK, SpecInv, KopfInv, KopfTyped, HandlerInv,
           StoreTyped, EnvTyped, kopfVars, storeVars, daemonVars, envVars
  <1>. QED
    BY <1>1, <1>2 DEF IInv, TypeOK, SpecInv, ObjInv, KopfInv, ObjTyped, KopfTyped,
                      StoreTyped, EnvTyped

\* The handler kopf starts is a handler of the operator.
LEMMA CauseIn ==
    ASSUME NEW u \in Uids, Cause(u) # None PROVE Cause(u) \in Handlers
  BY DEF Cause, Handlers

LEMMA StartHandlerInv ==
    ASSUME IInv, NEW u \in Uids, StartHandler(u) PROVE IInv'
  <1>1. ObjInv /\ KopfInv /\ StoreTyped /\ EnvTyped
    BY IInvParts
  <1>2. spec[u] \in SpecsOf(u) /\ SpecsOf(u) \subseteq InstSpecs \cup ZoneSpecs
    BY <1>1, SpecsOfKind DEF StartHandler, ObjInv
  <1>3. Cause(u) \in Handlers
    BY CauseIn DEF StartHandler
  <1>4. KopfTyped'
    BY <1>1, <1>2, <1>3 DEF StartHandler, KopfInv, KopfTyped, EnvTyped, Steps
  <1>5. HandlerInv'
    BY <1>1, <1>2, <1>3, ConstAssumption
       DEF StartHandler, KopfInv, KopfTyped, HandlerInv, InstSteps, ZoneSteps, Uids
  <1>6. \A v \in Uids : handled'[v] \in SpecsOf(v) \cup {None}
    BY <1>1 DEF StartHandler, KopfInv
  <1>7. ObjInv' /\ StoreTyped' /\ EnvTyped'
    BY <1>1 DEF StartHandler, ObjInv, ObjTyped, StoreTyped, EnvTyped, objVars,
                storeVars, daemonVars, envVars
  <1>. QED
    BY <1>4, <1>5, <1>6, <1>7 DEF IInv, TypeOK, SpecInv, ObjInv, KopfInv, ObjTyped,
                                  KopfTyped, StoreTyped, EnvTyped

LEMMA FinishDeletionInv ==
    ASSUME IInv, NEW u \in Uids, FinishDeletion(u) PROVE IInv'
  <1>1. ObjInv /\ KopfInv /\ StoreTyped /\ EnvTyped
    BY IInvParts
  <1>2. ObjInv'
    BY <1>1 DEF FinishDeletion, ObjInv, ObjTyped
  <1>3. KopfInv' /\ StoreTyped' /\ EnvTyped'
    BY <1>1 DEF FinishDeletion, KopfInv, KopfTyped, HandlerInv, StoreTyped,
                EnvTyped, kopfVars, storeVars, daemonVars, envVars
  <1>. QED
    BY <1>2, <1>3 DEF IInv, TypeOK, SpecInv, ObjInv, KopfInv, ObjTyped,
                      KopfTyped, StoreTyped, EnvTyped

LEMMA RestartInv ==
    ASSUME IInv, Restart PROVE IInv'
  <1>1. ObjInv /\ KopfInv /\ StoreTyped /\ EnvTyped
    BY IInvParts
  <1>2. ObjInv' /\ StoreTyped'
    BY <1>1 DEF Restart, ObjInv, ObjTyped, StoreTyped, objVars, storeVars
  <1>3. KopfInv'
    BY <1>1 DEF Restart, KopfInv, KopfTyped, HandlerInv, Steps, InstSteps, ZoneSteps
  <1>4. EnvTyped'
    BY <1>1, ConstAssumption DEF Restart, EnvTyped, DaemonStates
  <1>. QED
    BY <1>2, <1>3, <1>4 DEF IInv, TypeOK, SpecInv, ObjInv, KopfInv, ObjTyped,
                            KopfTyped, StoreTyped, EnvTyped

LEMMA DaemonStepInv ==
    ASSUME IInv, NEW u \in InstUids, DaemonStep(u) PROVE IInv'
  <1>1. ObjInv /\ KopfInv /\ StoreTyped /\ EnvTyped
    BY IInvParts
  <1>2. UNCHANGED <<objVars, kopfVars, storeVars, envVars>>
    BY DEF DaemonStep, SpawnDaemon, DaemonExit
  <1>3. daemon' \in [InstUids -> DaemonStates]
    BY <1>1 DEF DaemonStep, SpawnDaemon, DaemonExit, EnvTyped, DaemonStates
  <1>. QED
    BY <1>1, <1>2, <1>3 DEF IInv, TypeOK, SpecInv, ObjInv, KopfInv, ObjTyped,
                            KopfTyped, HandlerInv, StoreTyped, EnvTyped, objVars,
                            kopfVars, storeVars, envVars

LEMMA CreateObjectInv ==
    ASSUME IInv, NEW u \in Uids, NEW s \in SpecsOf(u), CreateObject(u, s)
    PROVE  IInv'
  <1>1. ObjInv /\ KopfInv /\ StoreTyped /\ EnvTyped
    BY IInvParts
  <1>2. ObjInv'
    BY <1>1, SpecsOfKind DEF CreateObject, ObjInv, ObjTyped
  <1>. QED
    BY <1>1, <1>2 DEF CreateObject, IInv, TypeOK, SpecInv, ObjInv, KopfInv,
                      ObjTyped, KopfTyped, HandlerInv, StoreTyped, EnvTyped,
                      kopfVars, storeVars, daemonVars, envVars

LEMMA UpdateObjectInv ==
    ASSUME IInv, NEW u \in Uids, NEW s \in SpecsOf(u), UpdateObject(u, s)
    PROVE  IInv'
  <1>1. ObjInv /\ KopfInv /\ StoreTyped /\ EnvTyped
    BY IInvParts
  <1>2. ObjInv'
    BY <1>1, SpecsOfKind DEF UpdateObject, ObjInv, ObjTyped
  <1>. QED
    BY <1>1, <1>2 DEF UpdateObject, IInv, TypeOK, SpecInv, ObjInv, KopfInv,
                      ObjTyped, KopfTyped, HandlerInv, StoreTyped, EnvTyped,
                      kopfVars, storeVars, daemonVars, envVars

LEMMA DeleteObjectInv ==
    ASSUME IInv, NEW u \in Uids, DeleteObject(u) PROVE IInv'
  <1>1. ObjInv /\ KopfInv /\ StoreTyped /\ EnvTyped
    BY IInvParts
  <1>2. ObjInv'
    BY <1>1 DEF DeleteObject, ObjInv, ObjTyped
  <1>. QED
    BY <1>1, <1>2 DEF DeleteObject, IInv, TypeOK, SpecInv, ObjInv, KopfInv,
                      ObjTyped, KopfTyped, HandlerInv, StoreTyped, EnvTyped,
                      kopfVars, storeVars, daemonVars, envVars

LEMMA CollectGarbageInv ==
    ASSUME IInv, NEW a \in ArtNames, CollectGarbage(a) PROVE IInv'
  <1>1. ObjInv /\ KopfInv /\ StoreTyped /\ EnvTyped
    BY IInvParts
  <1>2. StoreTyped'
    BY <1>1 DEF CollectGarbage, StoreTyped
  <1>. QED
    BY <1>1, <1>2 DEF CollectGarbage, IInv, TypeOK, SpecInv, ObjInv, KopfInv,
                      ObjTyped, KopfTyped, HandlerInv, StoreTyped, EnvTyped,
                      objVars, kopfVars, daemonVars, envVars

LEMMA TickInv ==
    ASSUME IInv, Tick PROVE IInv'
  <1>1. ObjInv /\ KopfInv /\ StoreTyped /\ EnvTyped
    BY IInvParts
  <1>2. EnvTyped'
    BY <1>1 DEF Tick, EnvTyped, daemonVars
  <1>. QED
    BY <1>1, <1>2 DEF Tick, IInv, TypeOK, SpecInv, ObjInv, KopfInv,
                      ObjTyped, KopfTyped, HandlerInv, StoreTyped, EnvTyped,
                      objVars, kopfVars, storeVars, daemonVars

LEMMA StutterInv ==
    ASSUME IInv, UNCHANGED vars PROVE IInv'
  BY DEF vars, objVars, kopfVars, storeVars, daemonVars, envVars, IInv, TypeOK,
         SpecInv, HandlerInv

\* IInv is inductive.
THEOREM NextIInv == IInv /\ [Next]_vars => IInv'
  <1> SUFFICES ASSUME IInv, [Next]_vars PROVE IInv'
    OBVIOUS
  <1>1. ASSUME NEW u \in Uids, Operator(u) PROVE IInv'
    BY <1>1, AddFinalizerInv, StartHandlerInv, FinishDeletionInv, ApplyConfigInv,
       PatchConfigInv, ApplyStatefulSetInv, PatchStatefulSetInv,
       ApplyServicesInv, ApplyZoneFileInv, PatchZoneFileInv
       DEF Operator, HandlerStep
  <1>2. ASSUME NEW u \in Uids, DeleteObject(u) PROVE IInv'
    BY <1>2, DeleteObjectInv
  <1>3. ASSUME NEW u \in Uids, NEW s \in SpecsOf(u),
               CreateObject(u, s) \/ UpdateObject(u, s)
        PROVE IInv'
    BY <1>3, CreateObjectInv, UpdateObjectInv
  <1>4. ASSUME NEW u \in InstUids, DaemonStep(u) PROVE IInv'
    BY <1>4, DaemonStepInv
  <1>5. ASSUME NEW a \in ArtNames, CollectGarbage(a) PROVE IInv'
    BY <1>5, CollectGarbageInv
  <1>6. CASE Restart
    BY <1>6, RestartInv
  <1>7. CASE Tick
    BY <1>7, TickInv
  <1>8. CASE UNCHANGED vars
    BY <1>8, StutterInv
  <1>. QED
    BY <1>1, <1>2, <1>3, <1>4, <1>5, <1>6, <1>7, <1>8 DEF Next

\* Type correctness of the reconciler (TypeOK, checked by the safety run):
\* every handler, store call, restart, daemon step and garbage collection
\* keeps every variable within its type, for all values of the constants.
THEOREM TypeCorrect == Spec => []TypeOK
  <1>1. Init => IInv
    BY InitIInv
  <1>2. IInv /\ [Next]_vars => IInv'
    BY NextIInv
  <1>3. IInv => TypeOK
    BY DEF IInv
  <1>. QED
    BY <1>1, <1>2, <1>3, PTL DEF Spec
-----------------------------------------------------------------------------
(* Ownership of the instance artifacts.                                    *)
(*                                                                         *)
(* InstanceArtifactsOwned is not inductive either: it says nothing of the  *)
(* kind of the writer, and a zone handler writing an instance artifact     *)
(* would give it an owner reference that does not resolve.  OwnInv states  *)
(* what makes it inductive: an instance artifact of name n in the store    *)
(* was last written by an instance named n, whose owner reference it       *)
(* carries; create writes that reference and the merge-patch keeps it.     *)
OwnInv ==
    \A n \in Names : \A a \in InstArts(n) :
        art[a] # None =>
            /\ writer[a].uid \in InstUids
            /\ NameOf[writer[a].uid] = n
            /\ \E c \in BOOLEAN : Ref(writer[a].uid, c) \in art[a].owners

OInv == IInv /\ OwnInv
\* Distinct (name, suffix) pairs name distinct objects: the instance
\* artifacts of n are those of name n, and no zone file is one of them.
LEMMA InstArtsName ==
    ASSUME NEW n, NEW m
    PROVE  /\ CM(m, "config") \in InstArts(n) => m = n
           /\ STS(m) \in InstArts(n) => m = n
           /\ SVC(m) \in InstArts(n) => m = n
           /\ CM(m, "zone") \notin InstArts(n)
  BY DEF InstArts, CM, STS, SVC

\* Every instance artifact is an object of the store.
LEMMA InstArtsIn ==
    ASSUME NEW n \in Names PROVE InstArts(n) \subseteq ArtNames
  BY DEF ArtNames

\* A store call keeps OwnInv when, if it succeeds on an instance artifact of
\* name n, the caller is an instance named n and puts its owner reference
\* among the owners it writes.
LEMMA WriteOwned ==
    ASSUME TypeOK, OwnInv, NEW u \in Uids, NEW a \in ArtNames, NEW o,
           NEW owners, NEW body,
           Write(u, a, o, owners, body),
           o = "ok" => \A n \in Names : a \in InstArts(n) =>
                          /\ u \in InstUids
                          /\ NameOf[u] = n
                          /\ \E c \in BOOLEAN : Ref(u, c) \in owners
    PROVE  OwnInv'
  <1> SUFFICES ASSUME NEW n \in Names, NEW b \in InstArts(n), art'[b] # None
               PROVE  /\ writer'[b].uid \in InstUids
                      /\ NameOf[writer'[b].uid] = n
                      /\ \E c \in BOOLEAN : Ref(writer'[b].uid, c) \in art'[b].owners
    BY DEF OwnInv
  <1>1. b \in ArtNames
    BY InstArtsIn
  <1>2. CASE o = "ok" /\ b = a
    <2>1. art'[b] = [owners |-> owners, body |-> body]
          /\ writer'[b] = [uid |-> u, spec |-> run[u]]
      BY <1>1, <1>2 DEF Write, TypeOK
    <2>2. u \in InstUids /\ NameOf[u] = n /\ \E c \in BOOLEAN : Ref(u, c) \in owners
      BY <1>2
    <2>. QED
      BY <2>1, <2>2
  <1>3. CASE ~(o = "ok" /\ b = a)
    <2>1. art'[b] = art[b] /\ writer'[b] = writer[b]
      BY <1>1, <1>3 DEF Write, TypeOK
    <2>. QED
      BY <2>1 DEF OwnInv
  <1>. QED
    BY <1>2, <1>3

\* The instance handlers write their instance's artifacts with its owner
\* reference.
LEMMA InstanceWriteOwned ==
    ASSUME NEW u \in InstUids, NEW a, NEW owners, NEW c \in BOOLEAN,
           a \in {CM(NameOf[u], "config"), STS(NameOf[u]), SVC(NameOf[u])},
           Ref(u, c) \in owners
    PROVE  \A n \in Names : a \in InstArts(n) =>
               /\ u \in InstUids
               /\ NameOf[u] = n
               /\ \E d \in BOOLEAN : Ref(u, d) \in owners
  BY InstArtsName

LEMMA PatchKeepsRef ==
    ASSUME NEW old, NEW r PROVE r \in PatchedOwners(old, {r})
  BY DEF PatchedOwners
LEMMA ApplyConfigOwn ==
    ASSUME OInv, NEW u \in Uids, ApplyConfig(u) PROVE OwnInv'
  <1> DEFINE a == CM(NameOf[u], "config")
             owners == {Ref(u, FALSE)}
  <1>1. u \in InstUids /\ TypeOK /\ OwnInv
    BY RunningKind DEF ApplyConfig, InstSteps, OInv, IInv
  <1>2. PICK o \in CreateOutcomes(a) : Write(u, a, o, {Ref(u, FALSE)}, CfgBody(u, run[u]))
    BY DEF ApplyConfig
  <1>3. \A n \in Names : a \in InstArts(n) =>
            /\ u \in InstUids /\ NameOf[u] = n
            /\ \E c \in BOOLEAN : Ref(u, c) \in {Ref(u, FALSE)}
    BY <1>1, InstanceWriteOwned
  <1>. QED
    <2>1. a \in ArtNames
      BY ArtNamesOf
    <2>2. TypeOK /\ OwnInv
      BY <1>1
    <2>3. o = "ok" => \A n \in Names : a \in InstArts(n) =>
                          /\ u \in InstUids
                          /\ NameOf[u] = n
                          /\ \E c \in BOOLEAN : Ref(u, c) \in owners
      BY <1>3
    <2>. QED
      BY <1>2, <2>1, <2>2, <2>3, WriteOwned

LEMMA PatchConfigOwn ==
    ASSUME OInv, NEW u \in Uids, PatchConfig(u) PROVE OwnInv'
  <1> DEFINE a == CM(NameOf[u], "config")
             owners == PatchedOwners(art[a].owners, {Ref(u, FALSE)})
  <1>1. u \in InstUids /\ TypeOK /\ OwnInv
    BY RunningKind DEF PatchConfig, InstSteps, OInv, IInv
  <1>2. PICK o \in PatchOutcomes(a, {Ref(u, FALSE)}) : Write(u, a, o, owners, CfgBody(u, run[u]))
    BY DEF PatchConfig
  <1>3. Ref(u, FALSE) \in owners
    BY PatchKeepsRef
  <1>4. \A n \in Names : a \in InstArts(n) =>
            /\ u \in InstUids /\ NameOf[u] = n
            /\ \E c \in BOOLEAN : Ref(u, c) \in owners
    BY <1>1, <1>3, InstanceWriteOwned
  <1>. QED
    <2>1. a \in ArtNames
      BY ArtNamesOf
    <2>2. TypeOK /\ OwnInv
      BY <1>1
    <2>3. o = "ok" => \A n \in Names : a \in InstArts(n) =>
                          /\ u \in InstUids
                          /\ NameOf[u] = n
                          /\ \E c \in BOOLEAN : Ref(u, c) \in owners
      BY <1>4
    <2>4. PICK ow, bd : ow = owners /\ Write(u, a, o, ow, bd)
      BY <1>2
    <2>5. o = "ok" => \A n \in Names : a \in InstArts(n) =>
                          /\ u \in InstUids
                          /\ NameOf[u] = n
                          /\ \E c \in BOOLEAN : Ref(u, c) \in ow
      BY <2>3, <2>4
    <2>. QED
      BY <2>1, <2>2, <2>4, <2>5, WriteOwned

LEMMA ApplyStatefulSetOwn ==
    ASSUME OInv, NEW u \in Uids, ApplyStatefulSet(u) PROVE OwnInv'
  <1> DEFINE a == STS(NameOf[u])
             owners == {Ref(u, TRUE)}
  <1>1. u \in InstUids /\ TypeOK /\ OwnInv
    BY RunningKind DEF ApplyStatefulSet, InstSteps, OInv, IInv
  <1>2. PICK o \in CreateOutcomes(a) : Write(u, a, o, {Ref(u, TRUE)}, StsBody(u, run[u]))
    BY DEF ApplyStatefulSet
  <1>3. \A n \in Names : a \in InstArts(n) =>
            /\ u \in InstUids /\ NameOf[u] = n
            /\ \E c \in BOOLEAN : Ref(u, c) \in {Ref(u, TRUE)}
    BY <1>1, InstanceWriteOwned
  <1>. QED
    <2>1. a \in ArtNames
      BY ArtNamesOf
    <2>2. TypeOK /\ OwnInv
      BY <1>1
    <2>3. o = "ok" => \A n \in Names : a \in InstArts(n) =>
                          /\ u \in InstUids
                          /\ NameOf[u] = n
                          /\ \E c \in BOOLEAN : Ref(u, c) \in owners
      BY <1>3
    <2>. QED
      BY <1>2, <2>1, <2>2, <2>3, WriteOwned

LEMMA PatchStatefulSetOwn ==
    ASSUME OInv, NEW u \in Uids, PatchStatefulSet(u) PROVE OwnInv'
  <1> DEFINE a == STS(NameOf[u])
             owners == PatchedOwners(art[a].owners, {Ref(u, TRUE)})
  <1>1. u \in InstUids /\ TypeOK /\ OwnInv
    BY RunningKind DEF PatchStatefulSet, InstSteps, OInv, IInv
  <1>2. PICK o \in PatchOutcomes(a, {Ref(u, TRUE)}) : Write(u, a, o, owners, StsBody(u, run[u]))
    BY DEF PatchStatefulSet
  <1>3. Ref(u, TRUE) \in owners
    BY PatchKeepsRef
  <1>4. \A n \in Names : a \in InstArts(n) =>
            /\ u \in InstUids /\ NameOf[u] = n
            /\ \E c \in BOOLEAN : Ref(u, c) \in owners
    BY <1>1, <1>3, InstanceWriteOwned
  <1>. QED
    <2>1. a \in ArtNames
      BY ArtNamesOf
    <2>2. TypeOK /\ OwnInv
      BY <1>1
    <2>3. o = "ok" => \A n \in Names : a \in InstArts(n) =>
                          /\ u \in InstUids
                          /\ NameOf[u] = n
                          /\ \E c \in BOOLEAN : Ref(u, c) \in owners
      BY <1>4
    <2>4. PICK ow, bd : ow = owners /\ Write(u, a, o, ow, bd)
      BY <1>2
    <2>5. o = "ok" => \A n \in Names : a \in InstArts(n) =>
                          /\ u \in InstUids
                          /\ NameOf[u] = n
                          /\ \E c \in BOOLEAN : Ref(u, c) \in ow
      BY <2>3, <2>4
    <2>. QED
      BY <2>1, <2>2, <2>4, <2>5, WriteOwned

LEMMA ApplyServicesOwn ==
    ASSUME OInv, NEW u \in Uids, ApplyServices(u) PROVE OwnInv'
  <1> DEFINE a == SVC(NameOf[u])
             owners == {Ref(u, FALSE)}
  <1>1. u \in InstUids /\ TypeOK /\ OwnInv
    BY RunningKind DEF ApplyServices, InstSteps, OInv, IInv
  <1>2. PICK o \in CreateOutcomes(a) : Write(u, a, o, {Ref(u, FALSE)}, SvcBody)
    BY DEF ApplyServices
  <1>3. \A n \in Names : a \in InstArts(n) =>
            /\ u \in InstUids /\ NameOf[u] = n
            /\ \E c \in BOOLEAN : Ref(u, c) \in {Ref(u, FALSE)}
    BY <1>1, InstanceWriteOwned
  <1>. QED
    <2>1. a \in ArtNames
      BY ArtNamesOf
    <2>2. TypeOK /\ OwnInv
      BY <1>1
    <2>3. o = "ok" => \A n \in Names : a \in InstArts(n) =>
                          /\ u \in InstUids
                          /\ NameOf[u] = n
                          /\ \E c \in BOOLEAN : Ref(u, c) \in owners
      BY <1>3
    <2>. QED
      BY <1>2, <2>1, <2>2, <2>3, WriteOwned

\* The zone handler writes only the zone file, which is no instance
\* artifact.
LEMMA ZoneWriteOwn ==
    ASSUME OInv, NEW z \in Uids, ApplyZoneFile(z) \/ PatchZoneFile(z)
    PROVE  OwnInv'
  <1> DEFINE a == CM(NameOf[z], "zone")
  <1>1. TypeOK /\ OwnInv
    BY DEF OInv, IInv
  <1>2. PICK o \in Outcomes : \E owners, body : Write(z, a, o, owners, body)
    BY CreateOutcomesIn, PatchOutcomesIn DEF ApplyZoneFile, PatchZoneFile
  <1>4. PICK owners, body : Write(z, a, o, owners, body)
    BY <1>2
  <1>3. \A n \in Names : a \notin InstArts(n)
    BY InstArtsName
  <1>. QED
    <2>1. a \in ArtNames
      BY ArtNamesOf
    <2>2. TypeOK /\ OwnInv
      BY <1>1
    <2>3. o = "ok" => \A n \in Names : a \in InstArts(n) =>
                          /\ z \in InstUids
                          /\ NameOf[z] = n
                          /\ \E c \in BOOLEAN : Ref(z, c) \in owners
      BY <1>3
    <2>. QED
      BY <1>4, <2>1, <2>2, <2>3, WriteOwned

\* The collector only removes objects.
LEMMA CollectGarbageOwn ==
    ASSUME OInv, NEW a \in ArtNames, CollectGarbage(a) PROVE OwnInv'
  <1>1. TypeOK /\ OwnInv
    BY DEF OInv, IInv
  <1>. QED
    BY <1>1, InstArtsIn DEF CollectGarbage, OwnInv, TypeOK

\* No other step touches the store.
LEMMA StoreUnchangedOwn ==
    ASSUME OwnInv, UNCHANGED storeVars PROVE OwnInv'
  BY DEF OwnInv, storeVars

THEOREM NextOInv == OInv /\ [Next]_vars => OInv'
  <1> SUFFICES ASSUME OInv, [Next]_vars PROVE OInv'
    OBVIOUS
  <1>1. IInv'
    BY NextIInv DEF OInv
  <1>2. OwnInv
    BY DEF OInv
  <1>3. ASSUME NEW u \in Uids, Operator(u) PROVE OwnInv'
    <2>1. CASE AddFinalizer(u) \/ StartHandler(u) \/ FinishDeletion(u)
      BY <1>2, <2>1, StoreUnchangedOwn DEF AddFinalizer, StartHandler, FinishDeletion
    <2>2. CASE HandlerStep(u)
      BY <2>2, ApplyConfigOwn, PatchConfigOwn, ApplyStatefulSetOwn,
         PatchStatefulSetOwn, ApplyServicesOwn, ZoneWriteOwn DEF HandlerStep
    <2>. QED
      BY <1>3, <2>1, <2>2 DEF Operator
  <1>4. ASSUME NEW a \in ArtNames, CollectGarbage(a) PROVE OwnInv'
    BY <1>4, CollectGarbageOwn
  <1>5. ASSUME NEW u \in Uids,
               \/ DeleteObject(u)
               \/ \E s \in SpecsOf(u) : CreateObject(u, s) \/ UpdateObject(u, s)
        PROVE  OwnInv'
    <2>1. UNCHANGED storeVars
      BY <1>5 DEF DeleteObject, CreateObject, UpdateObject
    <2>. QED
      BY <1>2, <2>1, StoreUnchangedOwn
  <1>6. ASSUME NEW u \in InstUids, DaemonStep(u) PROVE OwnInv'
    <2>1. UNCHANGED storeVars
      BY <1>6 DEF DaemonStep, SpawnDaemon, DaemonExit
    <2>. QED
      BY <1>2, <2>1, StoreUnchangedOwn
  <1>7. ASSUME Restart \/ Tick \/ UNCHANGED vars PROVE OwnInv'
    <2>1. UNCHANGED storeVars
      BY <1>7 DEF Restart, Tick, vars
    <2>. QED
      BY <1>2, <2>1, StoreUnchangedOwn
  <1>. QED
    BY <1>1, <1>3, <1>4, <1>5, <1>6, <1>7 DEF Next, OInv

\* Ownership of the instance artifacts (InstanceArtifactsOwned, checked by
\* the safety run): whatever the interleaving of handlers, failures,
\* re-creations, restarts and garbage collection, the ConfigMap,
\* StatefulSet and Service of an instance carry an owner reference to the
\* Bind9Instance that last wrote them.
THEOREM ArtifactsOwned == Spec => []InstanceArtifactsOwned
  <1>1. Init => OInv
    <2> SUFFICES ASSUME Init PROVE OwnInv
      BY InitIInv DEF OInv
    <2> SUFFICES ASSUME NEW n \in Names, NEW a \in InstArts(n) PROVE art[a] = None
      BY DEF OwnInv
    <2>. QED
      BY InstArtsIn DEF Init
  <1>2. OInv /\ [Next]_vars => OInv'
    BY NextOInv
  <1>3. OInv => InstanceArtifactsOwned
    <2> SUFFICES ASSUME OInv, NEW n \in Names, NEW a \in InstArts(n), art[a] # None
                 PROVE  OwnedBy(a, writer[a].uid)
      BY DEF InstanceArtifactsOwned
    <2>1. PICK c \in BOOLEAN : Ref(writer[a].uid, c) \in art[a].owners
      BY DEF OInv, OwnInv
    <2>2. writer[a].uid \in InstUids
      BY DEF OInv, OwnInv
    <2>3. KindOf(writer[a].uid) = "Bind9Instance"
      BY <2>2 DEF KindOf
    <2>. QED
      BY <2>1, <2>3 DEF OwnedBy, Ref
  <1>. QED
    BY <1>1, <1>2, <1>3, PTL DEF Spec
=============================================================================
