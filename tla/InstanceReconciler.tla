------------------------- MODULE InstanceReconciler -------------------------
(***************************************************************************)
(* The Instance controller of CrownLabs (operators/pkg/instance-controller)*)
(* reconciling one Instance whose Template holds one environment (VM or   *)
(* container),                                                             *)
(* against the cluster it writes to and the actors that share that         *)
(* cluster: the user editing or deleting the Instance, the template        *)
(* author, KubeVirt moving VM/VMI statuses, the garbage collector, and an  *)
(* API server whose calls can fail.                                        *)
(*                                                                         *)
(* The work queue of controller-runtime serialises reconciliations of one  *)
(* key, so one reconciler process suffices; pc is its position in         *)
(* Reconcile, and each step is one API call. Objects of different         *)
(* Instances never overlap (names derive from the Instance), so one        *)
(* Instance is enough.                                                     *)
(***************************************************************************)
EXTENDS Naturals, Sequences, KubeVirt

CONSTANTS
    Resources,          \* versions of the template's resource shape (CPU, memory, disk)
    ClusterIPs,         \* addresses the API server may assign to a Service
    NoIP,               \* the empty Status.IP
    MaxFaults,          \* failed API calls and controller restarts
    MaxUserOps,         \* user edits of spec.running, deletion, external deletions
    MaxTemplateEdits,   \* edits of the template's resources
    ExternalDeletion,   \* whether someone other than the controller deletes the Service
    Environments,       \* the environments the template's first entry may be
    ExtraEnvironments,  \* the environments a second entry may be (none: one-entry templates)
    CacheLag,           \* whether reads go through an informer cache that lags the API server
    NamespaceSelectedInit  \* whether the Instance's namespace carries the allow-list labels at first

ASSUME NoIP \notin ClusterIPs /\ Resources # {} /\ ClusterIPs # {}
ASSUME {MaxFaults, MaxUserOps, MaxTemplateEdits} \subseteq Nat
ASSUME ExternalDeletion \in BOOLEAN /\ CacheLag \in BOOLEAN
ASSUME NamespaceSelectedInit \subseteq BOOLEAN /\ NamespaceSelectedInit # {}

\* clv1alpha2.ClassVM and clv1alpha2.ClassContainer.
EnvClasses == {"VM", "Container"}
EnvironmentObj == [class: EnvClasses, persistent: BOOLEAN, guiEnabled: BOOLEAN]
ASSUME Environments \subseteq EnvironmentObj /\ Environments # {}
ASSUME ExtraEnvironments \subseteq EnvironmentObj
\* The informer caches are modelled for the VM workloads only.
ASSUME CacheLag => \A e \in Environments \cup ExtraEnvironments : e.class = "VM"

\* Template.Spec.EnvironmentList: one entry, or two.
EnvironmentLists ==
    {<<e>> : e \in Environments} \cup {<<e, x>> : e \in Environments, x \in ExtraEnvironments}

NoSpec == "nospec"      \* spec of an object that does not exist

VARIABLES
    instance,       \* the Instance object: spec.running, labels, status
    envs,           \* the template's environment list: class, persistent, guiEnabled each
    nsSelected,     \* the Instance's namespace matches the NamespaceWhitelist selector
    template,       \* the template's current resource shape, and whether it exists
    tenantPresent,  \* whether the Tenant object exists
    secret,         \* the cloud-init Secret exists
    service,        \* the Service: exists, spec (resources it was forged from), clusterIP
    ingressGUI,     \* the GUI Ingress
    ingressMyDrive, \* the file-browser Ingress (containers only)
    vm,             \* the VirtualMachine (persistent environments)
    vmi,            \* the VirtualMachineInstance (non-persistent environments)
    deploy,         \* the container workload (Deployment): exists, spec, running, ready
    queued,         \* the Instance key is in the work queue (or marked dirty)
    pc,             \* position of the reconciler in Reconcile
    loc,            \* the reconciler's in-memory objects
    instCache,      \* the Instance as the manager's informer cache holds it
    vmCache,        \* the VM as the informer cache holds it
    vmiCache,       \* the VMI as the informer cache holds it
    instEvent,      \* an Instance watch event that passes the predicate is undelivered
    faults, userOps, edits   \* bounds on the environment's actions

ctrlVars  == <<pc, loc>>
objVars   == <<secret, service, ingressGUI, ingressMyDrive, vm, vmi, deploy>>
inputVars == <<instance, envs, nsSelected, template, tenantPresent>>
boundVars == <<faults, userOps, edits>>
cacheObjs == <<instCache, vmCache, vmiCache>>
cacheVars == <<cacheObjs, instEvent>>
vars == <<inputVars, objVars, queued, ctrlVars, cacheVars, boundVars>>

-----------------------------------------------------------------------------
(* Types *)

Status == [phase: Phases, ip: ClusterIPs \cup {NoIP}, url: BOOLEAN, myDriveURL: BOOLEAN]
SpecValues == Resources \cup {NoSpec}
VMObj == [exists: BOOLEAN, spec: SpecValues, running: BOOLEAN, status: VMStatuses]
VMIObj == [exists: BOOLEAN, spec: SpecValues, phase: VMIPhases]
DeployObj == [exists: BOOLEAN, spec: SpecValues, running: BOOLEAN, ready: BOOLEAN]
InstanceObj == [exists: BOOLEAN, running: BOOLEAN, labelled: BOOLEAN, status: Status]
Errors == {"none", "conflict", "failure"}
PCs == {"Idle", "Secret", "Exposition", "DeleteIngressGUI", "DeleteIngressMyDrive",
        "IngressGUI", "IngressMyDrive", "Workload", "VMUpdate", "NextEnvironment",
        "PatchStatus"}

UnsetStatus == [phase |-> "", ip |-> NoIP, url |-> FALSE, myDriveURL |-> FALSE]
NoVM == [exists |-> FALSE, spec |-> NoSpec, running |-> FALSE, status |-> ""]
NoObj == [exists |-> FALSE, spec |-> NoSpec]
NoDeploy == [exists |-> FALSE, spec |-> NoSpec, running |-> FALSE, ready |-> FALSE]

TypeOK ==
    /\ instance \in InstanceObj
    /\ envs \in Seq(EnvironmentObj) /\ Len(envs) \in 1..2
    /\ nsSelected \in BOOLEAN
    /\ template \in [present: BOOLEAN, res: Resources]
    /\ tenantPresent \in BOOLEAN
    /\ secret \in BOOLEAN
    /\ service \in [exists: BOOLEAN, spec: SpecValues, ip: ClusterIPs \cup {NoIP}]
    /\ ingressGUI \in [exists: BOOLEAN, spec: SpecValues]
    /\ ingressMyDrive \in [exists: BOOLEAN, spec: SpecValues]
    /\ vm \in VMObj
    /\ vmi \in VMIObj
    /\ deploy \in DeployObj
    /\ instCache \in InstanceObj /\ vmCache \in VMObj /\ vmiCache \in VMIObj
    /\ instEvent \in BOOLEAN
    /\ queued \in BOOLEAN
    /\ pc \in PCs
    /\ loc \in [running: BOOLEAN, res: Resources, status: Status, orig: Status,
                err: Errors, vm: VMObj, i: 1..2]
    /\ faults \in 0..MaxFaults /\ userOps \in 0..MaxUserOps /\ edits \in 0..MaxTemplateEdits

-----------------------------------------------------------------------------
(* Initial state: an Instance just created by a client, nothing forged yet. *)

Init ==
    /\ instance = [exists |-> TRUE, running |-> TRUE, labelled |-> FALSE,
                   status |-> UnsetStatus]
    /\ envs \in EnvironmentLists
    /\ nsSelected \in NamespaceSelectedInit
    /\ template \in [present: BOOLEAN, res: Resources]
    /\ tenantPresent \in BOOLEAN
    /\ secret = FALSE
    /\ service = [exists |-> FALSE, spec |-> NoSpec, ip |-> NoIP]
    /\ ingressGUI = NoObj
    /\ ingressMyDrive = NoObj
    /\ vm = NoVM
    /\ vmi = [exists |-> FALSE, spec |-> NoSpec, phase |-> ""]
    /\ deploy = NoDeploy
    /\ queued = TRUE
    /\ pc = "Idle"
    /\ loc = [running |-> FALSE, res |-> CHOOSE r \in Resources : TRUE,
              status |-> UnsetStatus, orig |-> UnsetStatus, err |-> "none", vm |-> NoVM,
              i |-> 1]
    /\ instCache = instance /\ vmCache = vm /\ vmiCache = vmi /\ instEvent = FALSE
    /\ faults = 0 /\ userOps = 0 /\ edits = 0

-----------------------------------------------------------------------------
(***************************************************************************)
(* Helpers translated from the code.                                       *)
(***************************************************************************)

\* An API call of the reconciler may fail with an error other than a conflict.
CanFail == faults < MaxFaults
Fail == faults' = faults + 1

\* The manager's client reads through the informer cache: with CacheLag the
\* cached copy, which may lag the API server; without, the object itself.
InstanceRead == IF CacheLag THEN instCache ELSE instance
VMRead == IF CacheLag THEN vmCache ELSE vm
VMIRead == IF CacheLag THEN vmiCache ELSE vmi

\* A watched change queues the key at once when there is no cache to lag;
\* with one, when the informer delivers it (InformerSync).
Notify == ~CacheLag

\* Bug variant: only creations and deletions pass (spec updates filtered).
InstanceEventPassesCreateDelete(old, new) == old.exists # new.exists

\* GenerationChangedPredicate on the Instance: creation, deletion and
\* changes of the spec pass; updates of the status or the labels do not.
InstanceEventPasses(old, new) == old.exists # new.exists \/ old.running # new.running

\* A write of the Instance: with a lagging cache, its watch event waits for
\* the informer, and the informer's handler will queue the key if any of
\* the events it has not delivered yet passes the predicate.
RecordInstanceEvent(old, new) ==
    instEvent' = (instEvent \/ (CacheLag /\ InstanceEventPasses(old, new)))

\* Bug variant: the spec re-forged on every reconciliation (no IsZero guard).
ForgedSpecAlways(obj) == loc.res

\* The spec a CreateOrUpdate leaves on an object: forged from the inputs
\* only when the object is being created (CreationTimestamp.IsZero()).
ForgedSpec(obj) == IF obj.exists THEN obj.spec ELSE loc.res

\* The deferred status patch: a merge patch of the fields that differ
\* between the snapshot and the in-memory status, applied to the stored status.
MergeStatus(stored, orig, updated) ==
    [f \in DOMAIN stored |-> IF updated[f] # orig[f] THEN updated[f] ELSE stored[f]]

\* Bug variant: CreationLoopBackOff set whatever the error (no IsConflict check).
ReconcileErrorNoConflictCheck(l, kind) ==
    /\ loc' = [l EXCEPT !.err = kind, !.status.phase = "CreationLoopBackoff"]
    /\ pc' = "PatchStatus"

\* Deleting an object that is already gone is no error (kerrors.IsNotFound).
\* Bug variant: NotFound returned as an error.
AbsenceErrorNotFound(obj) == ~obj.exists

AbsenceError(obj) == FALSE

\* enforceEnvironments returned err: the phase becomes CreationLoopBackOff
\* unless err is a conflict; then the deferred status patch runs.
ReconcileError(l, kind) ==
    /\ loc' = [l EXCEPT !.err = kind,
                          !.status.phase = IF kind # "conflict"
                                           THEN "CreationLoopBackoff" ELSE @]
    /\ pc' = "PatchStatus"

-----------------------------------------------------------------------------
(***************************************************************************)
(* Reconcile, up to the deferred status patch: get the Instance (not found *)
(* means deleted: return nil), skip (return nil) if the namespace is not  *)
(* selected, get Template and Tenant (missing: return                      *)
(* the error), patch the labels if InstanceLabels changed them, then take  *)
(* the status snapshot of the deferred patch and enforce the environment.  *)
(* Any of these calls may fail; the error is returned and the key requeued.*)
(* The Instance is read from the cache; the label patch of an Instance     *)
(* already deleted on the API server fails with NotFound, and a successful *)
(* one refreshes the in-memory Instance with the server's copy.            *)
(***************************************************************************)
\* The Instance Reconcile goes on with: as read, or, after a label patch,
\* as the API server returned it in the patch response.
InstanceAfterLabels(inst) == IF inst.labelled THEN inst ELSE instance

\* Bug variant: the allow-list filter not applied.
NamespaceSelectedIgnored == TRUE

\* utils.CheckSelectorLabel: the Instance's namespace (read from the API
\* server, not watched) carries the NamespaceWhitelist labels.
NamespaceSelected == nsSelected

\* InstanceInto / InstanceFrom: the context carries a pointer to
\* Reconcile's own Instance, so the enforcers read its spec.running and
\* write its status in place, where the deferred patch finds it.
InstanceInto(l, inst) == [l EXCEPT !.running = inst.running, !.status = inst.status]

\* TemplateInto / TemplateFrom: the Template as read when Reconcile started.
TemplateInto(l, tmpl) == [l EXCEPT !.res = tmpl.res]

\* enforceEnvironments: the enforcer of an environment, by class
\* (EnforceVMEnvironment starts with the cloud-init Secret, the container
\* enforcer with the exposition).
FirstStep(e) == IF e.class = "VM" THEN "Secret" ELSE "Exposition"

\* EnvironmentInto / EnvironmentFrom: the entry of the Template's list the
\* loop of enforceEnvironments is at, which every enforcer reads.
env == envs[loc.i]

\* An environment enforced without error: the loop goes on while the list
\* has entries left, and otherwise enforceEnvironments returns nil.
EnvironmentDone == IF loc.i < Len(envs) THEN "NextEnvironment" ELSE "PatchStatus"

\* Bug variant: the NotFound of a deleted Instance returned as an error.
InstanceNotFoundRequeuesAlways == TRUE

\* client.IgnoreNotFound: a deleted Instance is no error, so the work
\* queue forgets the key.
InstanceNotFoundRequeues == FALSE

ReconcileStart ==
    LET inst == InstanceRead IN
    /\ pc = "Idle" /\ queued
    /\ \/ /\ ~inst.exists
          /\ queued' = InstanceNotFoundRequeues
          /\ UNCHANGED <<instance, ctrlVars, faults>>
       \/ /\ inst.exists
          /\ CanFail /\ Fail
          /\ UNCHANGED <<instance, queued, ctrlVars>>
       \/ /\ inst.exists /\ ~NamespaceSelected
          /\ queued' = FALSE
          /\ UNCHANGED <<instance, ctrlVars, faults>>
       \/ /\ inst.exists /\ NamespaceSelected
          /\ ~(template.present /\ tenantPresent)
          /\ UNCHANGED <<instance, queued, ctrlVars, faults>>
       \/ /\ inst.exists /\ NamespaceSelected /\ template.present /\ tenantPresent
          /\ ~inst.labelled /\ ~instance.exists
          /\ UNCHANGED <<instance, queued, ctrlVars, faults>>
       \/ /\ inst.exists /\ NamespaceSelected /\ template.present /\ tenantPresent
          /\ inst.labelled \/ instance.exists
          /\ instance' = IF inst.labelled THEN instance
                         ELSE [instance EXCEPT !.labelled = TRUE]
          /\ queued' = FALSE
          /\ LET read == InstanceAfterLabels(inst) IN
             loc' = [TemplateInto(InstanceInto(loc, read), template) EXCEPT
                         !.orig = read.status, !.err = "none", !.vm = NoVM, !.i = 1]
          /\ pc' = FirstStep(envs[1])
          /\ UNCHANGED faults
    /\ RecordInstanceEvent(instance, instance')
    /\ UNCHANGED <<envs, nsSelected, template, tenantPresent, objVars, cacheObjs, userOps, edits>>

\* EnforceVMEnvironment: EnforceCloudInitSecret, error returned as is.
EnforceCloudInitSecret ==
    /\ pc = "Secret"
    /\ \/ /\ secret' = TRUE
          /\ pc' = "Exposition"
          /\ UNCHANGED <<loc, faults>>
       \/ CanFail /\ Fail /\ ReconcileError(loc, "failure") /\ UNCHANGED secret
    /\ UNCHANGED <<inputVars, service, ingressGUI, ingressMyDrive, vm, vmi, deploy, queued,
                   cacheVars, userOps, edits>>

\* Bug variant: Status.IP taken from the wrong field of the Service.
ServiceAddressFromSpec(svc) == svc.spec

\* Status.IP is the ClusterIP the API server assigned to the Service.
ServiceAddress(svc) == svc.ip

\* Bug variant: the running flag re-read from the live Instance.
ExpositionRequestedLive == instance.running

\* EnforceInstanceExposition: presence when the Instance in the context
\* (the one read at the start of Reconcile) is running, absence otherwise.
ExpositionRequested == loc.running

\* Bug variant: the GUI Ingress skipped for any gui-less environment.
IngressGUISkippedNoGUI == ~env.guiEnabled

\* No need for Ingresses in case of gui-less VMs (containers always get one).
IngressGUISkipped == env.class = "VM" /\ ~env.guiEnabled

\* No need for the file-browser Ingress in case of VM environments.
MyDriveSkipped == env.class = "VM"

\* enforceInstanceExpositionPresence, up to the Service: CreateOrUpdate of
\* the Service, spec forged at creation only; Status.IP from its ClusterIP.
\* The exposition of a VM environment then ends.
EnforceServicePresence ==
    /\ pc = "Exposition" /\ ExpositionRequested
    /\ \/ /\ \E ip \in ClusterIPs :
                service' = [exists |-> TRUE, spec |-> ForgedSpec(service),
                            ip |-> IF service.exists THEN service.ip ELSE ip]
          /\ loc' = [loc EXCEPT !.status.ip = ServiceAddress(service')]
          /\ pc' = IF IngressGUISkipped THEN "Workload" ELSE "IngressGUI"
          /\ UNCHANGED faults
       \/ CanFail /\ Fail /\ ReconcileError(loc, "failure") /\ UNCHANGED service
    /\ UNCHANGED <<inputVars, secret, ingressGUI, ingressMyDrive, vm, vmi, deploy, queued,
                   cacheVars, userOps, edits>>

\* enforceInstanceExpositionPresence, the GUI Ingress: spec forged at
\* creation only; Status.URL set. A VM environment stops here.
EnforceIngressGUIPresence ==
    /\ pc = "IngressGUI"
    /\ \/ /\ ingressGUI' = [exists |-> TRUE, spec |-> ForgedSpec(ingressGUI)]
          /\ loc' = [loc EXCEPT !.status.url = TRUE]
          /\ pc' = IF MyDriveSkipped THEN "Workload" ELSE "IngressMyDrive"
          /\ UNCHANGED faults
       \/ CanFail /\ Fail /\ ReconcileError(loc, "failure") /\ UNCHANGED ingressGUI
    /\ UNCHANGED <<inputVars, secret, service, ingressMyDrive, vm, vmi, deploy, queued,
                   cacheVars, userOps, edits>>

\* enforceInstanceExpositionPresence, the file-browser Ingress of a
\* container: spec forged at creation only; Status.MyDriveURL set.
EnforceIngressMyDrivePresence ==
    /\ pc = "IngressMyDrive"
    /\ \/ /\ ingressMyDrive' = [exists |-> TRUE, spec |-> ForgedSpec(ingressMyDrive)]
          /\ loc' = [loc EXCEPT !.status.myDriveURL = TRUE]
          /\ pc' = "Workload"
          /\ UNCHANGED faults
       \/ CanFail /\ Fail /\ ReconcileError(loc, "failure") /\ UNCHANGED ingressMyDrive
    /\ UNCHANGED <<inputVars, secret, service, ingressGUI, vm, vmi, deploy, queued,
                   cacheVars, userOps, edits>>

\* enforceInstanceExpositionAbsence: clear IP, URL and MyDriveURL in memory,
\* then enforceObjectAbsence of the Service (NotFound is no error).
EnforceServiceAbsence ==
    /\ pc = "Exposition" /\ ~ExpositionRequested
    /\ \/ /\ ~AbsenceError(service)
          /\ service' = [exists |-> FALSE, spec |-> NoSpec, ip |-> NoIP]
          /\ loc' = [loc EXCEPT !.status.ip = NoIP, !.status.url = FALSE,
                                !.status.myDriveURL = FALSE]
          /\ pc' = "DeleteIngressGUI"
          /\ UNCHANGED faults
       \/ /\ \/ AbsenceError(service) /\ UNCHANGED faults
             \/ CanFail /\ Fail
          /\ UNCHANGED service
          /\ ReconcileError([loc EXCEPT !.status.ip = NoIP, !.status.url = FALSE,
                                        !.status.myDriveURL = FALSE], "failure")
    /\ UNCHANGED <<inputVars, secret, ingressGUI, ingressMyDrive, vm, vmi, deploy, queued,
                   cacheVars, userOps, edits>>

\* enforceObjectAbsence of the GUI Ingress.
EnforceIngressGUIAbsence ==
    /\ pc = "DeleteIngressGUI"
    /\ \/ /\ ~AbsenceError(ingressGUI)
          /\ ingressGUI' = NoObj
          /\ pc' = "DeleteIngressMyDrive"
          /\ UNCHANGED <<loc, faults>>
       \/ /\ \/ AbsenceError(ingressGUI) /\ UNCHANGED faults
             \/ CanFail /\ Fail
          /\ ReconcileError(loc, "failure") /\ UNCHANGED ingressGUI
    /\ UNCHANGED <<inputVars, secret, service, ingressMyDrive, vm, vmi, deploy, queued,
                   cacheVars, userOps, edits>>

\* enforceObjectAbsence of the file-browser Ingress.
EnforceIngressMyDriveAbsence ==
    /\ pc = "DeleteIngressMyDrive"
    /\ \/ /\ ~AbsenceError(ingressMyDrive)
          /\ ingressMyDrive' = NoObj
          /\ pc' = "Workload"
          /\ UNCHANGED <<loc, faults>>
       \/ /\ \/ AbsenceError(ingressMyDrive) /\ UNCHANGED faults
             \/ CanFail /\ Fail
          /\ ReconcileError(loc, "failure") /\ UNCHANGED ingressMyDrive
    /\ UNCHANGED <<inputVars, secret, service, ingressGUI, vm, vmi, deploy, queued,
                   cacheVars, userOps, edits>>

\* enforceVirtualMachine, the Get of CreateOrUpdate: the VM as read.
EnforceVirtualMachineGet ==
    /\ pc = "Workload" /\ env.class = "VM" /\ env.persistent
    /\ \/ /\ loc' = [loc EXCEPT !.vm = VMRead]
          /\ pc' = "VMUpdate"
          /\ UNCHANGED faults
       \/ CanFail /\ Fail /\ ReconcileError(loc, "failure")
    /\ UNCHANGED <<inputVars, objVars, queued, cacheVars, userOps, edits>>

\* The running flag CreateOrUpdate writes on an existing VM (only field of
\* the spec re-applied after creation).
VMRunningFlag(read) == loc.running

\* enforceVirtualMachine, the write of CreateOrUpdate and the phase: create
\* the VM with forged spec and running flag; or, on the VM as read, re-apply
\* the running flag and Update it if that changed it (a VM changed since the
\* read is a conflict, a VM deleted since is an error, and so is creating a
\* VM the stale cache did not show: AlreadyExists); then the phase from
\* the printable status of the VM as created, updated or read.
EnforceVirtualMachineUpdate ==
    LET read == loc.vm
        mutated == [read EXCEPT !.running = VMRunningFlag(read)]
        Phase(v) == [loc EXCEPT !.status.phase = RetrievePhaseFromVM(v.status)]
    IN
    /\ pc = "VMUpdate"
    /\ \/ /\ ~read.exists /\ ~vm.exists
          /\ vm' = [exists |-> TRUE, spec |-> ForgedSpec(read), running |-> loc.running,
                    status |-> ""]
          /\ loc' = Phase(vm') /\ pc' = EnvironmentDone
          /\ UNCHANGED faults
       \/ /\ ~read.exists /\ vm.exists
          /\ ReconcileError(loc, "failure") /\ UNCHANGED <<vm, faults>>
       \/ /\ read.exists /\ mutated = read
          /\ loc' = Phase(read) /\ pc' = EnvironmentDone
          /\ UNCHANGED <<vm, faults>>
       \/ /\ read.exists /\ mutated # read /\ vm = read
          /\ vm' = mutated
          /\ loc' = Phase(mutated) /\ pc' = EnvironmentDone
          /\ UNCHANGED faults
       \/ /\ read.exists /\ mutated # read /\ vm # read
          /\ ReconcileError(loc, IF vm.exists THEN "conflict" ELSE "failure")
          /\ UNCHANGED <<vm, faults>>
       \/ CanFail /\ Fail /\ ReconcileError(loc, "failure") /\ UNCHANGED vm
    /\ UNCHANGED <<inputVars, secret, service, ingressGUI, ingressMyDrive, vmi, deploy, queued,
                   cacheVars, userOps, edits>>

\* enforceVirtualMachineInstance: when running, CreateOrUpdate of the VMI:
\* created with a forged spec if the read shows none (AlreadyExists if the
\* read was stale), otherwise left as read (labels and owner already set,
\* so no Update), and the phase from the VMI as created or read; when not
\* running, phase Off and the VMI is left alone.
EnforceVirtualMachineInstance ==
    LET read == VMIRead IN
    /\ pc = "Workload" /\ env.class = "VM" /\ ~env.persistent
    /\ \/ /\ loc.running /\ ~read.exists /\ ~vmi.exists
          /\ vmi' = [exists |-> TRUE, spec |-> ForgedSpec(read), phase |-> ""]
          /\ loc' = [loc EXCEPT !.status.phase = RetrievePhaseFromVMI("")]
          /\ pc' = EnvironmentDone
          /\ UNCHANGED faults
       \/ /\ loc.running /\ ~read.exists /\ vmi.exists
          /\ ReconcileError(loc, "failure") /\ UNCHANGED <<vmi, faults>>
       \/ /\ loc.running /\ read.exists
          /\ loc' = [loc EXCEPT !.status.phase = RetrievePhaseFromVMI(read.phase)]
          /\ pc' = EnvironmentDone
          /\ UNCHANGED <<vmi, faults>>
       \/ /\ loc.running
          /\ CanFail /\ Fail /\ ReconcileError(loc, "failure") /\ UNCHANGED vmi
       \/ /\ ~loc.running
          /\ loc' = [loc EXCEPT !.status.phase = "Off"]
          /\ pc' = EnvironmentDone
          /\ UNCHANGED <<vmi, faults>>
    /\ UNCHANGED <<inputVars, secret, service, ingressGUI, ingressMyDrive, vm, deploy, queued,
                   cacheVars, userOps, edits>>

(***************************************************************************)
(* EnforceContainerEnvironment is called by enforceEnvironments but its    *)
(* code is not part of the sources at hand: modelled from spec section 4.3 *)
(* ("the analogous sequence against a container workload object ... no     *)
(* persistent-disk-import gate"). After the exposition, CreateOrUpdate of  *)
(* the Deployment: spec forged at creation only, the running flag          *)
(* (replicas) re-applied every time; the phase from its observed status.   *)
(***************************************************************************)

\* Bug variant: the running flag re-read from the live Instance.
DeploymentRunningLive(d) == instance.running

\* The running flag written on the Deployment: the one Reconcile read.
DeploymentRunning(d) == loc.running

\* Bug variant: every write changes the pod template, restarting the rollout.
DeploymentReadyAfterWriteRestarted(d) == FALSE

\* Only the replicas are re-applied on an existing Deployment; its pod
\* template is untouched, so the replicas stay as ready as they were.
DeploymentReadyAfterWrite(d) == d.exists /\ d.ready

\* The Instance phase shown for a Deployment: its desired running flag and
\* whether its replicas are ready.
RetrievePhaseFromDeployment(d) ==
    CASE d.running /\ d.ready -> "Running"
      [] d.running            -> "Starting"
      [] d.ready              -> "Stopping"
      [] OTHER                -> "Off"

EnforceContainerWorkload ==
    /\ pc = "Workload" /\ env.class = "Container"
    /\ \/ /\ deploy' = [exists |-> TRUE, spec |-> ForgedSpec(deploy),
                        running |-> DeploymentRunning(deploy),
                        ready |-> DeploymentReadyAfterWrite(deploy)]
          /\ loc' = [loc EXCEPT !.status.phase = RetrievePhaseFromDeployment(deploy')]
          /\ pc' = EnvironmentDone
          /\ UNCHANGED faults
       \/ CanFail /\ Fail /\ ReconcileError(loc, "failure") /\ UNCHANGED deploy
    /\ UNCHANGED <<inputVars, secret, service, ingressGUI, ingressMyDrive, vm, vmi, queued,
                   cacheVars, userOps, edits>>

\* Bug variant: the cut-off one entry late.
MultipleEnvironmentsRefusedLate(i) == i > 1

\* Only single-environment instances are supported: the entry at (0-based)
\* index i >= 1 is only logged, and nil returned.
MultipleEnvironmentsRefused(i) == i >= 1

\* Bug variant: the refused entry returned as an error, so retried.
RefuseEnvironmentRetried(l) == ReconcileError(l, "failure")

\* The refused entry: logged, and nil returned, so the loop ends as if
\* every environment had been enforced.
RefuseEnvironment(l) == pc' = "PatchStatus" /\ loc' = l

\* enforceEnvironments, the next iteration of the loop: the next entry,
\* at 0-based index loc.i, is refused (log, return nil: no retry, no
\* event, no status) or handed to its enforcer.
EnforceNextEnvironment ==
    /\ pc = "NextEnvironment"
    /\ \/ /\ MultipleEnvironmentsRefused(loc.i)
          /\ RefuseEnvironment(loc)
       \/ /\ ~MultipleEnvironmentsRefused(loc.i)
          /\ loc' = [loc EXCEPT !.i = @ + 1, !.vm = NoVM]
          /\ pc' = FirstStep(envs[loc.i + 1])
    /\ UNCHANGED <<inputVars, objVars, queued, cacheVars, boundVars>>

\* Bug variant: the error of the deferred status patch only logged.
ReturnedErrorSwallowPatch(patchFailed) == loc.err # "none"

\* What Reconcile returns: the enforcement error, overridden by the error of
\* the deferred status patch (err = err2).
ReturnedError(patchFailed) == loc.err # "none" \/ patchFailed

\* The deferred function of Reconcile: if the status differs from the
\* snapshot, merge-patch the status subresource (NotFound once the Instance
\* is deleted). A returned error makes the work queue requeue the key.
ReconcilePatchStatus ==
    LET changed == loc.status # loc.orig IN
    /\ pc = "PatchStatus"
    /\ \/ /\ ~changed
          /\ queued' = (queued \/ ReturnedError(FALSE))
          /\ UNCHANGED <<instance, faults>>
       \/ /\ changed /\ instance.exists
          /\ instance' = [instance EXCEPT
                 !.status = MergeStatus(instance.status, loc.orig, loc.status)]
          /\ queued' = (queued \/ ReturnedError(FALSE))
          /\ UNCHANGED faults
       \/ /\ changed /\ ~instance.exists
          /\ queued' = (queued \/ ReturnedError(TRUE))
          /\ UNCHANGED <<instance, faults>>
       \/ /\ changed /\ instance.exists /\ CanFail /\ Fail
          /\ queued' = (queued \/ ReturnedError(TRUE))
          /\ UNCHANGED instance
    /\ pc' = "Idle"
    /\ RecordInstanceEvent(instance, instance')
    /\ UNCHANGED <<loc, envs, nsSelected, template, tenantPresent, objVars, cacheObjs, userOps, edits>>

Controller ==
    \/ ReconcileStart
    \/ EnforceCloudInitSecret
    \/ EnforceServicePresence
    \/ EnforceIngressGUIPresence
    \/ EnforceIngressMyDrivePresence
    \/ EnforceServiceAbsence
    \/ EnforceIngressGUIAbsence
    \/ EnforceIngressMyDriveAbsence
    \/ EnforceVirtualMachineGet
    \/ EnforceVirtualMachineUpdate
    \/ EnforceVirtualMachineInstance
    \/ EnforceContainerWorkload
    \/ EnforceNextEnvironment
    \/ ReconcilePatchStatus

-----------------------------------------------------------------------------
(***************************************************************************)
(* The environment. Watches: the controller is triggered by Instance       *)
(* creation, deletion and generation changes, and by any change of an      *)
(* owned Deployment, VM or VMI (SetupWithManager); not by Services,        *)
(* Ingresses, Secrets, Templates, Tenants or Namespaces.                   *)
(***************************************************************************)

\* The user flips spec.running (a generation change).
UserSetRunning ==
    /\ instance.exists /\ userOps < MaxUserOps
    /\ instance' = [instance EXCEPT !.running = ~@]
    /\ queued' = (queued \/ Notify) /\ userOps' = userOps + 1
    /\ RecordInstanceEvent(instance, instance')
    /\ UNCHANGED <<envs, nsSelected, template, tenantPresent, objVars, ctrlVars, cacheObjs, faults, edits>>

\* The user deletes the Instance; its children are left to the garbage collector.
UserDeleteInstance ==
    /\ instance.exists /\ userOps < MaxUserOps
    /\ instance' = [instance EXCEPT !.exists = FALSE]
    /\ queued' = (queued \/ Notify) /\ userOps' = userOps + 1
    /\ RecordInstanceEvent(instance, instance')
    /\ UNCHANGED <<envs, nsSelected, template, tenantPresent, objVars, ctrlVars, cacheObjs, faults, edits>>

\* Someone else deletes the Service; no watch notices it.
ExternalDeleteService ==
    /\ ExternalDeletion /\ instance.exists /\ service.exists /\ userOps < MaxUserOps
    /\ service' = [exists |-> FALSE, spec |-> NoSpec, ip |-> NoIP]
    /\ userOps' = userOps + 1
    /\ UNCHANGED <<inputVars, secret, ingressGUI, ingressMyDrive, vm, vmi, deploy, queued,
                   ctrlVars, cacheVars, faults, edits>>

\* The template author changes the environment's resources; no watch.
EditTemplate ==
    /\ edits < MaxTemplateEdits
    /\ \E r \in Resources \ {template.res} : template' = [template EXCEPT !.res = r]
    /\ edits' = edits + 1
    /\ UNCHANGED <<instance, envs, nsSelected, tenantPresent, objVars, queued, ctrlVars, cacheVars, faults, userOps>>

\* A missing Template or Tenant is created; no watch.
CreateReferences ==
    /\ ~(template.present /\ tenantPresent)
    /\ template' = [template EXCEPT !.present = TRUE] /\ tenantPresent' = TRUE
    /\ UNCHANGED <<instance, envs, nsSelected, objVars, queued, ctrlVars, cacheVars, boundVars>>

\* KubeVirt moves the VM status or the VMI phase; the owned watch fires.
KubeVirtProgress ==
    /\ \/ /\ vm.exists
          /\ \E s \in VMNextStatuses(vm.status, vm.running) : vm' = [vm EXCEPT !.status = s]
          /\ UNCHANGED vmi
       \/ /\ vmi.exists
          /\ \E p \in VMINextPhases(vmi.phase) : vmi' = [vmi EXCEPT !.phase = p]
          /\ UNCHANGED vm
    /\ queued' = (queued \/ Notify)
    /\ UNCHANGED <<inputVars, secret, service, ingressGUI, ingressMyDrive, deploy, ctrlVars,
                   cacheVars, boundVars>>

\* The guest of an ephemeral VMI fails; nothing forces this.
VMIFail ==
    /\ vmi.exists /\ vmi.phase = "Running"
    /\ vmi' = [vmi EXCEPT !.phase = "Failed"]
    /\ queued' = (queued \/ Notify)
    /\ UNCHANGED <<inputVars, secret, service, ingressGUI, ingressMyDrive, vm, deploy,
                   ctrlVars, cacheVars, boundVars>>

\* The Deployment's replicas become ready, or terminate, as its running
\* flag asks; the owned watch fires.
DeploymentProgress ==
    /\ deploy.exists /\ deploy.ready # deploy.running
    /\ deploy' = [deploy EXCEPT !.ready = deploy.running]
    /\ queued' = (queued \/ Notify)
    /\ UNCHANGED <<inputVars, secret, service, ingressGUI, ingressMyDrive, vm, vmi, ctrlVars,
                   cacheVars, boundVars>>

\* An administrator adds the allow-list labels to the Instance's namespace;
\* no watch notices it.
LabelNamespace ==
    /\ ~nsSelected /\ nsSelected' = TRUE
    /\ UNCHANGED <<instance, envs, template, tenantPresent, objVars, queued, ctrlVars,
                   cacheVars, boundVars>>

\* The garbage collector deletes the children of a deleted Instance (all
\* carry a controller owner reference); deleting the VM or VMI fires the watch.
GarbageCollect ==
    /\ ~instance.exists
    /\ \/ secret /\ secret' = FALSE
          /\ UNCHANGED <<service, ingressGUI, ingressMyDrive, vm, vmi, deploy, queued>>
       \/ service.exists /\ service' = [exists |-> FALSE, spec |-> NoSpec, ip |-> NoIP]
          /\ UNCHANGED <<secret, ingressGUI, ingressMyDrive, vm, vmi, deploy, queued>>
       \/ ingressGUI.exists /\ ingressGUI' = NoObj
          /\ UNCHANGED <<secret, service, ingressMyDrive, vm, vmi, deploy, queued>>
       \/ ingressMyDrive.exists /\ ingressMyDrive' = NoObj
          /\ UNCHANGED <<secret, service, ingressGUI, vm, vmi, deploy, queued>>
       \/ vm.exists /\ vm' = NoVM /\ queued' = (queued \/ Notify)
          /\ UNCHANGED <<secret, service, ingressGUI, ingressMyDrive, vmi, deploy>>
       \/ vmi.exists /\ vmi' = [exists |-> FALSE, spec |-> NoSpec, phase |-> ""]
          /\ queued' = (queued \/ Notify)
          /\ UNCHANGED <<secret, service, ingressGUI, ingressMyDrive, vm, deploy>>
       \/ deploy.exists /\ deploy' = NoDeploy /\ queued' = (queued \/ Notify)
          /\ UNCHANGED <<secret, service, ingressGUI, ingressMyDrive, vm, vmi>>
    /\ UNCHANGED <<inputVars, ctrlVars, cacheVars, boundVars>>

\* The controller process restarts mid-reconciliation; at start-up the
\* informers list every object afresh and enqueue every Instance.
ControllerRestart ==
    /\ pc # "Idle" /\ CanFail /\ Fail
    /\ pc' = "Idle" /\ queued' = TRUE
    /\ IF CacheLag THEN /\ instCache' = instance /\ vmCache' = vm /\ vmiCache' = vmi
                        /\ instEvent' = FALSE
                   ELSE UNCHANGED cacheVars
    /\ UNCHANGED <<inputVars, objVars, loc, userOps, edits>>

\* An informer delivers the events of a watched object up to its latest
\* state (reads of the versions in between are not modelled): the cache is
\* updated, then the event handler queues the key: the Instance if one of
\* the events passes the predicate, an owned VM or VMI always. Each
\* informer runs on its own.
SyncInstance ==
    /\ CacheLag /\ (instCache # instance \/ instEvent)
    /\ instCache' = instance /\ instEvent' = FALSE
    /\ queued' = (queued \/ instEvent)
    /\ UNCHANGED <<vmCache, vmiCache, inputVars, objVars, ctrlVars, boundVars>>

SyncVM ==
    /\ CacheLag /\ vmCache # vm /\ vmCache' = vm /\ queued' = TRUE
    /\ UNCHANGED <<instCache, vmiCache, instEvent, inputVars, objVars, ctrlVars, boundVars>>

SyncVMI ==
    /\ CacheLag /\ vmiCache # vmi /\ vmiCache' = vmi /\ queued' = TRUE
    /\ UNCHANGED <<instCache, vmCache, instEvent, inputVars, objVars, ctrlVars, boundVars>>

InformerSync == SyncInstance \/ SyncVM \/ SyncVMI

Environment ==
    \/ UserSetRunning \/ UserDeleteInstance \/ ExternalDeleteService
    \/ EditTemplate \/ CreateReferences
    \/ KubeVirtProgress \/ VMIFail \/ DeploymentProgress \/ LabelNamespace
    \/ GarbageCollect \/ ControllerRestart
    \/ InformerSync

Next == Controller \/ Environment

\* The work queue hands a queued key to a worker (WF on the controller);
\* KubeVirt, the Deployment controller and the garbage collector keep
\* working. Users, template
\* authors, faults and restarts are not forced to happen. Informers
\* keep watching, each on its own, so every cache catches up with the API
\* server.
Fairness ==
    /\ WF_vars(Controller)
    /\ WF_vars(SyncInstance) /\ WF_vars(SyncVM) /\ WF_vars(SyncVMI)
    /\ WF_vars(KubeVirtProgress) /\ WF_vars(DeploymentProgress)
    /\ WF_vars(GarbageCollect)

Spec == Init /\ [][Next]_vars /\ Fairness

-----------------------------------------------------------------------------
(***************************************************************************)
(* Properties                                                              *)
(***************************************************************************)

\* The exposition objects an environment has while running: the GUI
\* Ingress for a container or a VM with a GUI, the file-browser Ingress
\* for a container.
\* The environment an Instance is enforced for: the template's first.
FirstEnvironment == envs[1]

WantsGUIIngress == FirstEnvironment.class = "Container" \/ FirstEnvironment.guiEnabled
WantsMyDrive == FirstEnvironment.class = "Container"

\* The cluster as the Instance and its environment ask for: a VM's Secret,
\* the exposition objects iff spec.running, the workload of the
\* environment's class with the right running flag and none of the other
\* classes; a deleted Instance has no children left.
ClusterConverged ==
    IF instance.exists
    THEN /\ instance.labelled /\ secret = (FirstEnvironment.class = "VM")
         /\ service.exists = instance.running
         /\ ingressGUI.exists = (instance.running /\ WantsGUIIngress)
         /\ ingressMyDrive.exists = (instance.running /\ WantsMyDrive)
         /\ CASE FirstEnvironment.class = "Container" ->
                    deploy.exists /\ deploy.running = instance.running
                    /\ ~vm.exists /\ ~vmi.exists
               [] FirstEnvironment.persistent ->
                    vm.exists /\ vm.running = instance.running /\ ~vmi.exists /\ ~deploy.exists
               [] OTHER ->
                    ~vm.exists /\ (instance.running => vmi.exists) /\ ~deploy.exists
    ELSE ~(secret \/ service.exists \/ ingressGUI.exists \/ ingressMyDrive.exists
           \/ vm.exists \/ vmi.exists \/ deploy.exists)

\* The persisted Instance status describes that cluster: the Service's
\* address and the URLs while running, none when stopped, and the phase
\* derived from the Deployment, VM or VMI.
StatusConverged ==
    instance.exists =>
        /\ instance.status.ip = (IF instance.running THEN service.ip ELSE NoIP)
        /\ instance.status.url = (instance.running /\ WantsGUIIngress)
        /\ instance.status.myDriveURL = (instance.running /\ WantsMyDrive)
        /\ instance.status.phase =
               CASE FirstEnvironment.class = "Container" -> RetrievePhaseFromDeployment(deploy)
                 [] FirstEnvironment.persistent -> RetrievePhaseFromVM(vm.status)
                 [] instance.running -> RetrievePhaseFromVMI(vmi.phase)
                 [] OTHER -> "Off"

Converged == ClusterConverged /\ StatusConverged

\* No delivered-later watch event would still queue the key.
NoPendingEvent ==
    ~CacheLag \/ (vmCache = vm /\ vmiCache = vmi /\ ~instEvent)

\* Quiescence means converged: whenever the reconciler is idle and the key
\* is not queued, the cluster objects and the persisted Instance status
\* match spec.running and the environment. A reconciliation that failed
\* (enforcement or deferred status patch) without requeueing, a change no
\* watch reports, or a phase derived from a stale read all break it.
QuiescentConsistent ==
    (instance.exists /\ pc = "Idle" /\ ~queued /\ NoPendingEvent) => Converged

\* A reconciliation that ends in an optimistic-concurrency conflict does
\* not change the persisted phase (no flap to CreationLoopBackOff).
ConflictKeepsPhase ==
    [][(pc = "PatchStatus" /\ loc.err = "conflict")
           => instance'.status.phase = instance.status.phase]_vars

\* Once the Template and Tenant exist and the namespace is selected, the
\* cluster and the status converge and stay converged, for every finite
\* pattern of user edits, failures and restarts.
EventuallyConverged ==
    <>[](template.present /\ tenantPresent /\ nsSelected) => <>[]Converged

\* Spec 7 (a), (e): conditions retrying cannot change (a deleted Instance,
\* a second environment, an object already absent) are not errors, so
\* once the Template and Tenant exist the controller eventually stops:
\* idle with nothing queued, for good. A terminal condition returned as an
\* error would keep the work queue retrying it forever.
EventuallyIdle ==
    <>[](template.present /\ tenantPresent) => <>[](pc = "Idle" /\ ~queued)

\* Even when reads go through a lagging informer cache, the cluster objects
\* converge and stay converged once the Template and Tenant exist: a
\* reconciliation that acted on a stale Instance, VM or VMI is followed by
\* one that reads the delivered state, since every event that could change
\* the objects asked for passes the predicate or comes from an owned object.
EventuallyClusterConverged ==
    <>[](template.present /\ tenantPresent) => <>[]ClusterConverged

\* The detailed reconciler implements the enforcement contract of
\* InstanceEnforcement: the Instance and children seen without status,
\* IP, KubeVirt and Deployment progress, and the reconciler's view being the
\* spec.running and resources it read, active while pc is not Idle.
Enforcement == INSTANCE InstanceEnforcement WITH
    instance <- [exists |-> instance.exists, running |-> instance.running],
    env <- FirstEnvironment,
    service <- [exists |-> service.exists, spec |-> service.spec],
    vm <- [exists |-> vm.exists, spec |-> vm.spec, running |-> vm.running],
    vmi <- [exists |-> vmi.exists, spec |-> vmi.spec],
    deploy <- [exists |-> deploy.exists, spec |-> deploy.spec, running |-> deploy.running],
    selected <- nsSelected,
    view <- [active |-> pc # "Idle", running |-> loc.running, res |-> loc.res]

\* Every write the reconciler makes to a child (Secret, Service, Ingresses,
\* VM, VMI, Deployment) moves it towards what one consistent view of the
\* Instance, read when Reconcile started in a selected namespace, asks
\* for: a reconciliation never mixes the spec.running it read with a later
\* one, never forges a spec twice, never deletes a VMI, never touches the
\* children of an Instance whose namespace is not selected, and a VM's or
\* Deployment's running flag is the one it read.
EnforcementRefined == Enforcement!Spec

\* Spec 4.3 step 3 and 8 (gating): a persistent environment's compute
\* workload is not created while its disk is still being imported. Here the
\* import is the VM's DataVolume template, reported as "Provisioning".
NoWorkloadBeforeImport ==
    ~(vm.exists /\ vm.status = "Provisioning")
=============================================================================
