----------------------------- MODULE Reconciler -----------------------------
(***************************************************************************)
(* The reconciliation loop of the BIND9 operator for Bind9Instance and     *)
(* DNSZone objects (src/operator/handlers/instance.py, zone.py), the       *)
(* Resource Applier they call (src/operator/kubernetes/resources.py), and  *)
(* the life of the health daemon of every instance (its probe loop is     *)
(* HealthDaemon, which refines the daemon here).                           *)
(*                                                                         *)
(* The environment is modelled from the spec (sections 5 and 6): the       *)
(* object store with its create/patch semantics and owner-reference        *)
(* garbage collector, the kopf scheduler that runs at most one handler per *)
(* object at a time, retries a handler that raised TemporaryError, keeps a *)
(* finalizer on objects that have a delete handler or a daemon, and calls  *)
(* the resume handlers of every object when the operator restarts.         *)
(*                                                                         *)
(* Every store call of a handler is one step, so handlers of different     *)
(* objects, the garbage collector, the daemon, the user and a restart      *)
(* interleave between any two calls.                                       *)
(***************************************************************************)
EXTENDS Integers, Sequences, FiniteSets, Synth

CONSTANTS
    InstUids,     \* metadata.uid of each Bind9Instance incarnation
    ZoneUids,     \* metadata.uid of each DNSZone incarnation
    Names,        \* metadata.name values
    NameOf,       \* NameOf[u]: the name the object with uid u is created with
    InstSpecs,    \* Bind9Instance specs a user may write
    ZoneSpecs,    \* DNSZone specs a user may write
    Dates,        \* calendar dates (YYYYMMDD) the operator runs on
    FaultKinds,   \* store failures that may occur: "api", "net"
    MaxFaults,    \* bound on the number of failed store calls
    MaxRestarts,  \* bound on the number of operator restarts
    None          \* Python's None; also "no such object"

Uids == InstUids \cup ZoneUids

ASSUME ConstAssumption ==
    /\ InstUids \cap ZoneUids = {}
    /\ NameOf \in [Uids -> Names]
    /\ Dates \subseteq Nat /\ Dates # {}
    /\ FaultKinds \subseteq {"api", "net"}
    /\ MaxFaults \in Nat /\ MaxRestarts \in Nat
    /\ None \notin Uids

VARIABLES
    phase,     \* phase[u]: "absent" (not created yet), "live", "deleting", "gone"
    spec,      \* spec[u]: the object's current spec
    fin,       \* fin[u]: the kopf finalizer is on the object
    handled,   \* handled[u]: kopf's last-handled spec (None before creation)
    resume,    \* resume[u]: the resume handlers are due (operator started)
    pc,        \* pc[u]: the store call the running handler of u makes next
    hdl,       \* hdl[u]: the handler function that is running
    run,       \* run[u]: the spec the running handler was called with
    rday,      \* rday[z]: the date on which the running zone handler started
    status,    \* status[u]: handlers that have returned their success status
    art,       \* art[a]: the derived object named a in the store, or None
    writer,    \* writer[a]: object and spec of the handler that last wrote a
    daemon,    \* daemon[u]: "off", "running" or "exited": the daemon of instance u
    faults,    \* number of store calls that have failed
    restarts,  \* number of operator restarts
    today      \* the current date

objVars    == <<phase, spec, fin>>
kopfVars   == <<handled, resume, pc, hdl, run, rday, status>>
storeVars  == <<art, writer>>
daemonVars == <<daemon>>
envVars    == <<faults, restarts, today>>
vars == <<objVars, kopfVars, storeVars, daemonVars, envVars>>

-----------------------------------------------------------------------------
(* Derived objects.  Names are f"{name}-{suffix}"; the suffixes differ in  *)
(* their last characters, so distinct (name, suffix) pairs give distinct   *)
(* names, and a triple stands for the string.                              *)
CM(n, t) == <<"ConfigMap", n, t>>
STS(n)   == <<"StatefulSet", n, "bind9">>
SVC(n)   == <<"Service", n, "dns">>

InstArts(n) == {CM(n, "config"), STS(n), SVC(n)}
ArtNames == UNION {InstArts(n) \cup {CM(n, "zone"), CM(n, "zones")} : n \in Names}

\* The owner reference every create_* function puts in metadata: the kind
\* is hard-coded to Bind9Instance, the name and uid are the caller's.
Ref(u, ctl) == [kind |-> "Bind9Instance", name |-> NameOf[u], uid |-> u,
                controller |-> ctl]
OwnerRefs == [kind : {"Bind9Instance"}, name : Names, uid : Uids,
              controller : BOOLEAN]

KindOf(u) == IF u \in InstUids THEN "Bind9Instance" ELSE "DNSZone"
Alive(u) == phase[u] \in {"live", "deleting"}

\* The garbage collector finds the owner by kind, name and uid.
Resolves(r) == Alive(r.uid) /\ KindOf(r.uid) = r.kind /\ NameOf[r.uid] = r.name

\* The bodies the Applier sends.
CfgBody(u, s)     == [data |-> GenerateBind9Config(s, NameOf[u])]
ZoneBody(u, s, d) == [data |-> GenerateZoneFile(s, Get(s, "zoneName", None), d)]
StsBody(u, s) ==
    [replicas |-> Get(s, "replicas", 1),
     image    |-> Get(s, "version", "internetsystemsconsortium/bind9:9.18"),
     volumes  |-> {CM(NameOf[u], "config"), CM(NameOf[u], "zones")}]
SvcBody == [ports |-> {"dns-udp", "dns-tcp"}, type |-> "LoadBalancer"]

Bodies == {CfgBody(u, s) : u \in InstUids, s \in InstSpecs}
          \cup {ZoneBody(u, s, d) : u \in ZoneUids, s \in ZoneSpecs, d \in Dates}
          \cup {StsBody(u, s) : u \in InstUids, s \in InstSpecs}
          \cup {SvcBody}
Artifact == [owners : SUBSET OwnerRefs, body : Bodies]
Writer == [uid : Uids, spec : InstSpecs \cup ZoneSpecs]

Steps == {"idle", "cfg", "cfgPatch", "sts", "stsPatch", "svc", "zone", "zonePatch"}
Handlers == {"create_bind9_instance", "update_bind9_instance", "manage_dns_zone"}
DaemonStates == {"off", "running", "exited"}

TypeOK ==
    /\ phase \in [Uids -> {"absent", "live", "deleting", "gone"}]
    /\ spec \in [Uids -> InstSpecs \cup ZoneSpecs \cup {None}]
    /\ fin \in [Uids -> BOOLEAN]
    /\ handled \in [Uids -> InstSpecs \cup ZoneSpecs \cup {None}]
    /\ resume \in [Uids -> BOOLEAN]
    /\ pc \in [Uids -> Steps]
    /\ hdl \in [Uids -> Handlers \cup {None}]
    /\ run \in [Uids -> InstSpecs \cup ZoneSpecs \cup {None}]
    /\ rday \in [ZoneUids -> Dates]
    /\ status \in [Uids -> SUBSET Handlers]
    /\ art \in [ArtNames -> Artifact \cup {None}]
    /\ writer \in [ArtNames -> Writer \cup {None}]
    /\ daemon \in [InstUids -> DaemonStates]
    /\ faults \in 0..MaxFaults
    /\ restarts \in 0..MaxRestarts
    /\ today \in Dates

Init ==
    /\ today \in Dates
    /\ phase = [u \in Uids |-> "absent"]
    /\ spec = [u \in Uids |-> None]
    /\ fin = [u \in Uids |-> FALSE]
    /\ handled = [u \in Uids |-> None]
    /\ resume = [u \in Uids |-> FALSE]
    /\ pc = [u \in Uids |-> "idle"]
    /\ hdl = [u \in Uids |-> None]
    /\ run = [u \in Uids |-> None]
    /\ rday = [z \in ZoneUids |-> today]
    /\ status = [u \in Uids |-> {}]
    /\ art = [a \in ArtNames |-> None]
    /\ writer = [a \in ArtNames |-> None]
    /\ daemon = [u \in InstUids |-> "off"]
    /\ faults = 0
    /\ restarts = 0
-----------------------------------------------------------------------------
(* The object store (spec section 6).  A call fails with 409 when it       *)
(* creates a taken name, 404 when it patches a missing object, 422 when a  *)
(* patch would give the object two controller references; and, within the *)
(* fault budget, with "api" (an ApiException of another status) or "net"   *)
(* (any other exception: a lost connection, get_k8s_client failing to     *)
(* load the cluster configuration).                                        *)
Faults == IF faults < MaxFaults THEN FaultKinds ELSE {}

CreateOutcomes(a) == (IF art[a] = None THEN {"ok"} ELSE {"conflict"}) \cup Faults

\* Defect variant: a patch body built without metadata.ownerReferences
\* leaves the owners as they are.
PatchedOwnersDropsNew(old, refs) == old

\* A strategic-merge patch merges metadata.ownerReferences by uid.
PatchedOwners(old, refs) == old \cup refs

TwoControllers(rs) ==
    \E r1, r2 \in rs : r1.controller /\ r2.controller /\ r1.uid # r2.uid

PatchOutcomes(a, refs) ==
    {CASE art[a] = None -> "notfound"
       [] TwoControllers(PatchedOwners(art[a].owners, refs)) -> "invalid"
       [] OTHER -> "ok"} \cup Faults

\* The effect of a store call with outcome o that writes owners and body to
\* the object a on behalf of the running handler of u.
Write(u, a, o, owners, body) ==
    /\ art' = IF o = "ok"
              THEN [art EXCEPT ![a] = [owners |-> owners, body |-> body]]
              ELSE art
    /\ writer' = IF o = "ok"
                 THEN [writer EXCEPT ![a] = [uid |-> u, spec |-> run[u]]]
                 ELSE writer
    /\ faults' = IF o \in FaultKinds THEN faults + 1 ELSE faults

-----------------------------------------------------------------------------
(* How a handler goes on after a store call.                               *)
Goto(u, step) ==
    /\ pc' = [pc EXCEPT ![u] = step]
    /\ UNCHANGED <<handled, resume, hdl, run, rday, status>>

\* The handler returned its status dict: kopf stores it under the handler's
\* name and records the spec as handled.  A create/resume or zone handler
\* that returns satisfies the resume cause as well.
Return(u) ==
    /\ pc' = [pc EXCEPT ![u] = "idle"]
    /\ hdl' = [hdl EXCEPT ![u] = None]
    /\ run' = [run EXCEPT ![u] = None]
    /\ status' = [status EXCEPT ![u] = @ \cup {hdl[u]}]
    /\ handled' = [handled EXCEPT ![u] = run[u]]
    /\ resume' = IF hdl[u] = "update_bind9_instance" THEN resume
                 ELSE [resume EXCEPT ![u] = FALSE]
    /\ UNCHANGED rday

\* Defect variant: the handler raises kopf.PermanentError; kopf marks the
\* spec handled and never calls the handler again.
RetryPermanent(u) ==
    /\ pc' = [pc EXCEPT ![u] = "idle"]
    /\ hdl' = [hdl EXCEPT ![u] = None]
    /\ run' = [run EXCEPT ![u] = None]
    /\ handled' = [handled EXCEPT ![u] = run[u]]
    /\ resume' = [resume EXCEPT ![u] = FALSE]
    /\ UNCHANGED <<status, rday>>

\* The handler raised kopf.TemporaryError(..., delay=30): kopf calls it
\* again later, with the spec the object has then.
Retry(u) ==
    /\ pc' = [pc EXCEPT ![u] = "idle"]
    /\ hdl' = [hdl EXCEPT ![u] = None]
    /\ run' = [run EXCEPT ![u] = None]
    /\ UNCHANGED <<handled, resume, status, rday>>

\* kopf's diff between the last-handled and the new spec: DiffItem tuples
\* (operation, field path, old value, new value).
Diff(old, new) ==
    LET changed == {f \in DOMAIN old \cup DOMAIN new :
                        Get(old, f, None) # Get(new, f, None)}
    IN  {<<CASE f \notin DOMAIN old -> "add"
             [] f \notin DOMAIN new -> "remove"
             [] OTHER -> "change",
           <<"spec", f>>, Get(old, f, None), Get(new, f, None)>> : f \in changed}

\* `for field, _, _ in diff` unpacks every item into three names: a
\* ValueError for an item of another length.
UnpackFails(d) == \E item \in d : Len(item) # 3

\* `field in ["replicas", "image", "resources"]` for some item.
WorkloadChanged(d) == \E item \in d : item[1] \in {"replicas", "image", "resources"}

\* update_bind9_instance once its ConfigMap is applied: the diff test; the
\* ValueError is caught by `except Exception` and becomes a TemporaryError.
AfterUpdateConfig(u) ==
    LET d == Diff(handled[u], run[u]) IN
    IF UnpackFails(d) THEN Retry(u)
    ELSE IF WorkloadChanged(d) THEN Goto(u, "sts")
    ELSE Return(u)

AfterConfig(u) ==
    IF hdl[u] = "create_bind9_instance" THEN Goto(u, "sts") ELSE AfterUpdateConfig(u)

AfterStatefulSet(u) ==
    IF hdl[u] = "create_bind9_instance" THEN Goto(u, "svc") ELSE Return(u)

-----------------------------------------------------------------------------
(* The Applier calls of the instance handlers.                             *)

\* create_configmap(name, namespace, config_data, uid, "config"): create;
\* on 409 patch (an error of the patch propagates); any other ApiException
\* of the create is swallowed; any other exception propagates.
ApplyConfig(u) ==
    LET a == CM(NameOf[u], "config") IN
    /\ pc[u] = "cfg"
    /\ \E o \in CreateOutcomes(a) :
        /\ Write(u, a, o, {Ref(u, FALSE)}, CfgBody(u, run[u]))
        /\ CASE o = "conflict"      -> Goto(u, "cfgPatch")
             [] o \in {"ok", "api"} -> AfterConfig(u)
             [] o = "net"           -> Retry(u)
    /\ UNCHANGED <<objVars, daemonVars, restarts, today>>

PatchConfig(u) ==
    LET a == CM(NameOf[u], "config") IN
    /\ pc[u] = "cfgPatch"
    /\ \E o \in PatchOutcomes(a, {Ref(u, FALSE)}) :
        /\ Write(u, a, o, PatchedOwners(art[a].owners, {Ref(u, FALSE)}),
                 CfgBody(u, run[u]))
        /\ IF o = "ok" THEN AfterConfig(u) ELSE Retry(u)
    /\ UNCHANGED <<objVars, daemonVars, restarts, today>>

\* create_bind9_statefulset: the same create-or-patch, with a controller
\* owner reference.
ApplyStatefulSet(u) ==
    LET a == STS(NameOf[u]) IN
    /\ pc[u] = "sts"
    /\ \E o \in CreateOutcomes(a) :
        /\ Write(u, a, o, {Ref(u, TRUE)}, StsBody(u, run[u]))
        /\ CASE o = "conflict"      -> Goto(u, "stsPatch")
             [] o \in {"ok", "api"} -> AfterStatefulSet(u)
             [] o = "net"           -> Retry(u)
    /\ UNCHANGED <<objVars, daemonVars, restarts, today>>

PatchStatefulSet(u) ==
    LET a == STS(NameOf[u]) IN
    /\ pc[u] = "stsPatch"
    /\ \E o \in PatchOutcomes(a, {Ref(u, TRUE)}) :
        /\ Write(u, a, o, PatchedOwners(art[a].owners, {Ref(u, TRUE)}),
                 StsBody(u, run[u]))
        /\ IF o = "ok" THEN AfterStatefulSet(u) ELSE Retry(u)
    /\ UNCHANGED <<objVars, daemonVars, restarts, today>>

\* create_bind9_services: create; a 409 is ignored (the existing Service is
\* left as it is); any other error propagates.  The handler then returns
\* {"phase": "Ready"}.
ApplyServices(u) ==
    LET a == SVC(NameOf[u]) IN
    /\ pc[u] = "svc"
    /\ \E o \in CreateOutcomes(a) :
        /\ Write(u, a, o, {Ref(u, FALSE)}, SvcBody)
        /\ IF o \in {"ok", "conflict"} THEN Return(u) ELSE Retry(u)
    /\ UNCHANGED <<objVars, daemonVars, restarts, today>>

(* The Applier calls of manage_dns_zone: create_configmap(name, namespace,  *)
(* zone_content, uid, "zone"), then reload_bind9_config, which only logs,  *)
(* and the return of {"phase": "Active"}.                                  *)
ApplyZoneFile(z) ==
    LET a == CM(NameOf[z], "zone") IN
    /\ pc[z] = "zone"
    /\ \E o \in CreateOutcomes(a) :
        /\ Write(z, a, o, {Ref(z, FALSE)}, ZoneBody(z, run[z], rday[z]))
        /\ CASE o = "conflict"      -> Goto(z, "zonePatch")
             [] o \in {"ok", "api"} -> Return(z)
             [] o = "net"           -> Retry(z)
    /\ UNCHANGED <<objVars, daemonVars, restarts, today>>

PatchZoneFile(z) ==
    LET a == CM(NameOf[z], "zone") IN
    /\ pc[z] = "zonePatch"
    /\ \E o \in PatchOutcomes(a, {Ref(z, FALSE)}) :
        /\ Write(z, a, o, PatchedOwners(art[a].owners, {Ref(z, FALSE)}),
                 ZoneBody(z, run[z], rday[z]))
        /\ IF o = "ok" THEN Return(z) ELSE Retry(z)
    /\ UNCHANGED <<objVars, daemonVars, restarts, today>>

HandlerStep(u) ==
    \/ ApplyConfig(u) \/ PatchConfig(u) \/ ApplyStatefulSet(u)
    \/ PatchStatefulSet(u) \/ ApplyServices(u)
    \/ ApplyZoneFile(u) \/ PatchZoneFile(u)

-----------------------------------------------------------------------------
(* kopf (spec section 6).                                                  *)

\* kopf puts its finalizer on an object with a delete handler or a daemon
\* before it calls any handler.
AddFinalizer(u) ==
    /\ phase[u] = "live" /\ ~fin[u]
    /\ fin' = [fin EXCEPT ![u] = TRUE]
    /\ UNCHANGED <<phase, spec, kopfVars, storeVars, daemonVars, envVars>>

\* The handler kopf calls for u next, or None: a never-handled object is
\* created, a changed spec is an update, otherwise the resume handlers.
Cause(u) ==
    IF u \in InstUids
    THEN CASE handled[u] = None    -> "create_bind9_instance"
           [] handled[u] # spec[u] -> "update_bind9_instance"
           [] resume[u]            -> "create_bind9_instance"
           [] OTHER                -> None
    ELSE IF handled[u] # spec[u] \/ resume[u] THEN "manage_dns_zone" ELSE None

StartHandler(u) ==
    /\ phase[u] = "live" /\ fin[u] /\ pc[u] = "idle"
    /\ Cause(u) # None
    /\ pc' = [pc EXCEPT ![u] = IF u \in ZoneUids THEN "zone" ELSE "cfg"]
    /\ hdl' = [hdl EXCEPT ![u] = Cause(u)]
    /\ run' = [run EXCEPT ![u] = spec[u]]
    /\ rday' = IF u \in ZoneUids THEN [rday EXCEPT ![u] = today] ELSE rday
    /\ UNCHANGED <<objVars, handled, resume, status, storeVars, daemonVars, envVars>>

\* Defect variant: the finalizer goes while a handler of u still runs.
FinishDeletionWhileRunning(u) ==
    /\ phase[u] = "deleting" /\ fin[u]
    /\ u \in InstUids => daemon[u] \in {"off", "exited"}
    /\ phase' = [phase EXCEPT ![u] = "gone"]
    /\ fin' = [fin EXCEPT ![u] = FALSE]
    /\ UNCHANGED <<spec, kopfVars, storeVars, daemonVars, envVars>>

\* delete_bind9_instance returns at once and delete_dns_zone only logs a
\* reload; kopf runs them once no handler of u is running, and removes the
\* finalizer once the daemon has exited.
FinishDeletion(u) ==
    /\ phase[u] = "deleting" /\ fin[u] /\ pc[u] = "idle"
    /\ u \in InstUids => daemon[u] \in {"off", "exited"}
    /\ phase' = [phase EXCEPT ![u] = "gone"]
    /\ fin' = [fin EXCEPT ![u] = FALSE]
    /\ UNCHANGED <<spec, kopfVars, storeVars, daemonVars, envVars>>

\* The operator process restarts: running handlers and daemons die between
\* two store calls, and the resume handlers of every live object are due.
Restart ==
    /\ restarts < MaxRestarts
    /\ restarts' = restarts + 1
    /\ pc' = [u \in Uids |-> "idle"]
    /\ hdl' = [u \in Uids |-> None]
    /\ run' = [u \in Uids |-> None]
    /\ resume' = [u \in Uids |-> phase[u] = "live"]
    /\ daemon' = [u \in InstUids |-> "off"]
    /\ UNCHANGED <<objVars, handled, rday, status, storeVars, faults, today>>

-----------------------------------------------------------------------------
(* monitor_bind9_health, the daemon of every live instance, seen from   *)
(* the reconciler: kopf starts it, and it exits once it sees the stop     *)
(* flag, which `while not stopped` tests before every probe cycle.        *)
SpawnDaemon(u) ==
    /\ phase[u] = "live" /\ fin[u] /\ daemon[u] = "off"
    /\ daemon' = [daemon EXCEPT ![u] = "running"]
    /\ UNCHANGED <<objVars, kopfVars, storeVars, envVars>>

\* Defect variant: a loop `while True:` that never tests the stop flag.
DaemonIgnoresStop(u) ==
    /\ daemon[u] = "running" /\ phase[u] # "live" /\ FALSE
    /\ UNCHANGED vars

\* kopf sets the stop flag when deletion begins; the cycle under way ends
\* (stopped.wait returns at once) and the loop test sees the flag.
DaemonExit(u) ==
    /\ daemon[u] = "running" /\ phase[u] # "live"
    /\ daemon' = [daemon EXCEPT ![u] = "exited"]
    /\ UNCHANGED <<objVars, kopfVars, storeVars, envVars>>

DaemonStep(u) == SpawnDaemon(u) \/ DaemonExit(u)

-----------------------------------------------------------------------------
(* The user and the rest of the cluster.                                   *)
SpecsOf(u) == IF u \in InstUids THEN InstSpecs ELSE ZoneSpecs

CreateObject(u, s) ==
    /\ phase[u] = "absent"
    /\ \A v \in Uids : Alive(v) /\ KindOf(v) = KindOf(u) => NameOf[v] # NameOf[u]
    /\ phase' = [phase EXCEPT ![u] = "live"]
    /\ spec' = [spec EXCEPT ![u] = s]
    /\ UNCHANGED <<fin, kopfVars, storeVars, daemonVars, envVars>>

UpdateObject(u, s) ==
    /\ phase[u] = "live" /\ s # spec[u]
    /\ spec' = [spec EXCEPT ![u] = s]
    /\ UNCHANGED <<phase, fin, kopfVars, storeVars, daemonVars, envVars>>

\* With the finalizer on, deletion only sets deletionTimestamp.
DeleteObject(u) ==
    /\ phase[u] = "live"
    /\ phase' = [phase EXCEPT ![u] = IF fin[u] THEN "deleting" ELSE "gone"]
    /\ UNCHANGED <<spec, fin, kopfVars, storeVars, daemonVars, envVars>>

\* The garbage collector deletes an object none of whose owner references
\* resolves to an existing owner.
CollectGarbage(a) ==
    /\ art[a] # None
    /\ \A r \in art[a].owners : ~Resolves(r)
    /\ art' = [art EXCEPT ![a] = None]
    /\ writer' = [writer EXCEPT ![a] = None]
    /\ UNCHANGED <<objVars, kopfVars, daemonVars, envVars>>

Tick ==
    /\ \E d \in Dates : d > today /\ today' = d
    /\ UNCHANGED <<objVars, kopfVars, storeVars, daemonVars, faults, restarts>>

Operator(u) ==
    AddFinalizer(u) \/ StartHandler(u) \/ HandlerStep(u) \/ FinishDeletion(u)

Next ==
    \/ \E u \in Uids :
          \/ Operator(u)
          \/ DeleteObject(u)
          \/ \E s \in SpecsOf(u) : CreateObject(u, s) \/ UpdateObject(u, s)
    \/ \E u \in InstUids : DaemonStep(u)
    \/ \E a \in ArtNames : CollectGarbage(a)
    \/ Restart
    \/ Tick

\* kopf's workers, the daemons and the garbage collector never stop for
\* good; the user, restarts and the clock are not obliged to act.
Fairness ==
    /\ \A u \in Uids : WF_vars(Operator(u))
    /\ \A u \in InstUids : WF_vars(DaemonStep(u))
    /\ \A a \in ArtNames : WF_vars(CollectGarbage(a))

Spec == Init /\ [][Next]_vars /\ Fairness
-----------------------------------------------------------------------------
(* Properties.                                                             *)

OwnedBy(a, u) ==
    \E r \in art[a].owners : r.uid = u /\ r.kind = KindOf(u) /\ r.name = NameOf[u]

\* Ownership (spec sections 3 and 8): the ConfigMap, StatefulSet and
\* Service of an instance carry an owner reference that resolves to the
\* incarnation that last wrote them, so the garbage collector removes them
\* with that incarnation and never while it exists.  At stake when an
\* instance is deleted and re-created under the same name before the
\* collector has run, and create_configmap/create_bind9_statefulset meet a
\* 409 and patch the old incarnation's object.
InstanceArtifactsOwned ==
    \A n \in Names : \A a \in InstArts(n) :
        art[a] # None => OwnedBy(a, writer[a].uid)

\* Spec sections 5 and 6: every object a handler puts in the store is put
\* there on behalf of a Bind9Instance or DNSZone that still exists (live,
\* or being deleted with kopf's finalizer on).  A handler goes on with its
\* store calls while the user deletes its object, and only kopf's
\* finalizer, which stays until no handler of the object is running, keeps
\* the last calls from writing for an object that is gone, whose objects
\* the garbage collector would then take away.
StoreWrittenForExistingObject ==
    [][\A a \in ArtNames :
          art'[a] # None /\ (art'[a] # art[a] \/ writer'[a] # writer[a])
              => Alive(writer'[a].uid)]_vars

\* The same ownership for the zone-file ConfigMap that manage_dns_zone
\* writes through create_configmap(name, ..., uid, "zone").
ZoneFilesOwned ==
    \A n \in Names :
        art[CM(n, "zone")] # None => OwnedBy(CM(n, "zone"), writer[CM(n, "zone")].uid)

\* u is live, no handler of u is running and none is due.
Settled(u) ==
    phase[u] = "live" /\ pc[u] = "idle" /\ handled[u] = spec[u] /\ ~resume[u]

\* Spec section 4.4: an instance whose create handler reported Ready, and
\* that has nothing left to handle, has its ConfigMap, StatefulSet and
\* Service in the store, owned by it, and its ConfigMap holds the named.conf
\* of its current spec (section 4.3: a failed create is surfaced, never
\* reported Ready).
ReadyInstanceApplied ==
    \A u \in InstUids :
        Settled(u) /\ "create_bind9_instance" \in status[u] =>
            /\ \A a \in InstArts(NameOf[u]) : art[a] # None /\ OwnedBy(a, u)
            /\ art[CM(NameOf[u], "config")].body = CfgBody(u, spec[u])

\* Spec section 4.4: every live Bind9Instance and DNSZone is eventually
\* reconciled (its create or zone handler returns), however often store
\* calls fail with Retryable errors and the operator restarts.
EventuallyReconciled ==
    \A u \in Uids :
        phase[u] = "live" ~> (phase[u] # "live" \/ status[u] # {})

\* Spec section 5: the daemon is cancelled once its instance is deleted, so
\* the deletion of every object completes.
DeletionCompletes ==
    \A u \in Uids : phase[u] = "deleting" ~> phase[u] = "gone"

\* Spec section 4.4: after a change of replicas the StatefulSet eventually
\* runs the replica count of the spec, as long as the spec stays.
WorkloadFollowsSpec ==
    \A u \in InstUids, s \in InstSpecs :
        (phase[u] = "live" /\ spec[u] = s)
            ~> \/ phase[u] # "live" \/ spec[u] # s
               \/ /\ art[STS(NameOf[u])] # None
                  /\ art[STS(NameOf[u])].body.replicas = Get(s, "replicas", 1)
=============================================================================
