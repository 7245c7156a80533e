# TLA+ models of the CrownLabs Instance controller

This directory holds TLA+ models of the Instance controller in
`src/operators/pkg/instance-controller`, the TLC configurations that check
them, and `PROJECT.json`, which maps every modelled definition to the source
lines it translates. The runs, mutants, findings and hazards are listed there
too.

## 1. The system

An *Instance* asks for one running lab environment. It has `spec.running`, a
reference to a *Template* and one to a *Tenant*, and a status with `phase`,
`ip`, `url` and `myDriveURL`. The Template lists environments. Only the first
one is realised. An environment is a VM or a container. It can be
`persistent`, can have a GUI (`guiEnabled`), and has a resource shape. The
controller is level-triggered: every reconciliation recomputes what must
exist from the current objects.

### Components, their state and operations

| Component | Source | State it touches | Operations |
|---|---|---|---|
| Reconcile engine | `controller.go` | the Instance's labels and status; the work queue | `Reconcile` (get Instance, namespace selector, get Template and Tenant, patch labels, enforce, deferred status patch), `enforceEnvironments` (the loop over the environment list: the first enforced, the second logged and skipped), `SetupWithManager` (watches, concurrency) |
| Exposition enforcer | `exposition.go` | Service, GUI Ingress, file-browser Ingress; `status.ip/url/myDriveURL` | `EnforceInstanceExposition`: presence (CreateOrUpdate, spec forged at creation only) or absence (clear the status fields, three deletions that tolerate NotFound) |
| VM environment enforcer | `virtualmachines.go` | cloud-init Secret, VirtualMachine (persistent), VirtualMachineInstance (ephemeral); `status.phase` | `EnforceVMEnvironment` → secret, exposition, `enforceVirtualMachine` (the spec is forged at creation; the running flag is re-applied every time; phase from the printable status) or `enforceVirtualMachineInstance` (created only when running; never deleted; phase Off when not running) |
| Legacy VM creation | `logic.go` | DataVolume, VM/VMI, status through `setInstanceStatus` | `CreateVMEnvironment`, `createPersistentlogic` (DataVolume import gating), background `getVmiStatus` goroutine. `Reconcile` does not call it |
| Context plumbing | `context/context.go` | none | carries pointers to Reconcile's own Instance and Template (and Tenant, Environment) in a `context.Context`, so enforcers write the status the deferred patch diffs |
| Container enforcer, forge, `EnforceCloudInitSecret`, `RetrievePhaseFromVM/VMI` | not among the sources | Deployment, forged specs | called by the code above. Modelled from the spec where the model needs them |

### How they interact

`Reconcile` calls `enforceEnvironments`, which calls `EnforceVMEnvironment`.
That calls `EnforceCloudInitSecret`, then `EnforceInstanceExposition`, then
the VM or VMI enforcement. The enforcers share one in-memory `*Instance`
through the context, and they write its status. A deferred function in
`Reconcile` diffs that status against a snapshot. If the two differ, it
merge-patches the status subresource.

The controller shares the cluster with other actors:

- users, who flip `spec.running` or delete the Instance;
- template authors, who edit the Template;
- KubeVirt, which moves the VM status and the VMI phase;
- the garbage collector, which deletes children whose owner is gone;
- anyone else who deletes objects.

The controller-runtime work queue runs at most one reconciliation per key at
a time. It requeues a key when the reconciliation returns an error. It also
queues a key on these watched events: an Instance is created, deleted or
changes generation, or an owned Deployment, VM or VMI changes.

### What is hard

- **Stale reads and interleavings.** `spec.running` is read once per
  reconciliation. A VM can change between the Get and the Update of
  `CreateOrUpdate`, which causes a conflict.
- **Partial failure.** Any API call can fail half-way through. The status
  is patched anyway, and the patch itself can fail.
- **Crash and restart.** If the controller restarts between creating
  children and patching the status, nothing in the controller is persisted.
- **Ordering against the garbage collector.** The Instance can be deleted
  while a reconciliation is still creating its children.
- **Frozen specs.** An edited template must not rewrite a live VM, VMI,
  Service or Ingress.
- **A lagging cache.** `r.Get` and `CreateOrUpdate` read through the
  manager's informer caches, which may be behind the API server, and a
  status event of the Instance never queues it. The model puts the reads
  of the Instance, VM and VMI behind caches. Reads of the Service,
  Ingresses, Secret, Template and Tenant go to the objects themselves, so
  the retries a stale read of those would cause (AlreadyExists, NotFound)
  are not modelled.
- **Liveness.** The work queue is the only thing that brings the cluster
  back to the desired state, so every change that matters must be watched or
  retried.

### Properties that make each part correct

- **Reconcile engine.** When nothing is queued, the status describes the
  cluster. A failure is always retried. A conflict never shows as
  CreationLoopBackOff. The cluster eventually converges.
- **Exposition.** The objects exist exactly when the Instance is running,
  and the status names them. Specs are never rewritten after creation.
  Deleting an absent object is not a failure.
- **VM enforcer.** The workload class matches `persistent`. The VM running
  flag follows `spec.running`. The phase is derived from the object. An
  ephemeral VMI is never deleted.

## 2. Modules

| Module | Models |
|---|---|
| `KubeVirt.tla` | VM printable statuses and VMI phases. `RetrievePhaseFromVM/VMI`, whose code is not among the sources, is modelled from spec §4.3 step 5. The KubeVirt transitions are environment behaviour, not repository code. |
| `InstanceEnforcement.tla` | The abstract specification: what one reconciliation promises to do to the children of an Instance, without any of its steps. |
| `InstanceReconciler.tla` | The reconciler of one Instance whose template lists one or two environments (VM or container), the namespace allow-list, the informer caches it reads through, and the actors around it. It defines `EnforcementRefined`, the refinement of `InstanceEnforcement`. |
| `MCInstanceReconciler.tla` | Model values for resource versions and cluster addresses, the environment sets of each run, and the symmetry sets. |
| `LegacyVMCreation.tla` | `CreateVMEnvironment` and `createPersistentlogic` of `logic.go`. |
| `MCLegacyVMCreation.tla` | Model values and environment sets for the legacy runs. |

### How `InstanceReconciler` corresponds to the code

- `pc` is the reconciler's position in `Reconcile`. One step is one API
  call, so user, KubeVirt, garbage-collector and informer steps interleave
  between any two calls.
- `loc` is the in-memory state of the reconciler:
  - the `spec.running` and template resources it read;
  - its working copy of the status;
  - the snapshot that the deferred patch diffs against;
  - the error returned so far;
  - the VM as read by `CreateOrUpdate`;
  - `i`, the index of the `enforceEnvironments` loop. `env`, which the
    enforcers read, is `envs[loc.i]`: the entry `EnvironmentInto` put in
    the context.
- `envs` is the template's environment list: one entry, or two when the
  constant `ExtraEnvironments` is not empty.
- Cluster objects are records. `spec` is the template resource version the
  object was forged from, which abstracts the whole forged spec. The Service
  also has the `clusterIP` the API server assigned.
- `instCache`, `vmCache` and `vmiCache` are the informer caches, and
  `instEvent` records an Instance watch event that passes
  `GenerationChangedPredicate` but has not been delivered yet. They matter
  only when the constant `CacheLag` is TRUE. With `CacheLag = FALSE`, reads
  go to the objects themselves and a watched change queues the key in the
  same step.

| Action | Code |
|---|---|
| `ReconcileStart` | `Reconcile` lines 75–140. The Instance is read through the cache (`InstanceRead`). NotFound returns nil, so the key is forgotten (`InstanceNotFoundRequeues`). An Instance whose namespace the allow-list does not select (`NamespaceSelected`, `utils.CheckSelectorLabel`) returns nil. A missing Template or Tenant, or any failed call, returns an error. Then the label patch: it fails NotFound if the Instance is already gone, and on success its response refreshes the in-memory Instance (`InstanceAfterLabels`). Then the snapshot is taken, the Instance and Template go into the context (`InstanceInto`, `TemplateInto`: pointers, so the enforcers write the status in place) and `enforceEnvironments` picks the enforcer by class (`FirstStep`). |
| `EnforceCloudInitSecret` | the secret step of `EnforceVMEnvironment` |
| `EnforceServicePresence`, `EnforceIngressGUIPresence`, `EnforceIngressMyDrivePresence` | `enforceInstanceExpositionPresence`, guarded by the `spec.running` held in the context (`ExpositionRequested`); a gui-less VM stops after the Service (`IngressGUISkipped`), any VM after the GUI Ingress (`MyDriveSkipped`) |
| `EnforceServiceAbsence`, `EnforceIngressGUIAbsence`, `EnforceIngressMyDriveAbsence` | `enforceInstanceExpositionAbsence` / `enforceObjectAbsence` |
| `EnforceVirtualMachineGet`, `EnforceVirtualMachineUpdate` | `enforceVirtualMachine`, with `CreateOrUpdate` split into its read (`VMRead`) and its write. A create after a stale read fails AlreadyExists. |
| `EnforceVirtualMachineInstance` | `enforceVirtualMachineInstance`. Its `CreateOrUpdate` never issues an Update after creation, so it is one step. A create after a stale read fails AlreadyExists. |
| `EnforceContainerWorkload` | `EnforceContainerEnvironment`, not among the sources, modelled from spec §4.3: CreateOrUpdate of the Deployment, spec forged at creation, running flag re-applied (`DeploymentRunning`), readiness kept (`DeploymentReadyAfterWrite`), phase from `RetrievePhaseFromDeployment`. The container sequence starts at the exposition: the cloud-init Secret is a VM step. |
| `EnforceNextEnvironment` | the loop of `enforceEnvironments`, lines 175–185. When a workload step succeeds (`EnvironmentDone`), the loop goes to the next entry or ends. At the 0-based index 1 or higher it logs and returns nil (`MultipleEnvironmentsRefused`), so nothing of the second environment is written. |
| `ReconcileError` | lines 155–165: CreationLoopBackOff unless the error is a conflict |
| `ReconcilePatchStatus` | the deferred merge patch, whose error overrides the returned error |
| `SyncInstance`, `SyncVM`, `SyncVMI` | the informers behind `SetupWithManager`. Each brings its cache up to the object and then queues the key. For the Instance, it does so only if an undelivered event passed the predicate. |

The environment actions are `UserSetRunning`, `UserDeleteInstance`,
`ExternalDeleteService`, `EditTemplate`, `CreateReferences`,
`KubeVirtProgress`, `VMIFail`, `DeploymentProgress` (replicas become ready
or terminate; the owned watch fires), `LabelNamespace` (an administrator
selects the namespace; nothing is watched), `GarbageCollect` and
`ControllerRestart`. A
restart re-lists every cache and queues the key. Only watched events set
`queued`, either at once or through an informer. Returning an error also
requeues the key.

Some operators are named bug variants: `ForgedSpecAlways`,
`ReconcileErrorNoConflictCheck`, `AbsenceErrorNotFound`,
`ServiceAddressFromSpec`, `ReturnedErrorSwallowPatch`,
`ExpositionRequestedLive`, `InstanceEventPassesCreateDelete`,
`IngressGUISkippedNoGUI`, `DeploymentRunningLive`,
`DeploymentReadyAfterWriteRestarted`, `NamespaceSelectedIgnored`,
`MultipleEnvironmentsRefusedLate`, `RefuseEnvironmentRetried` and
`InstanceNotFoundRequeuesAlways`, plus
`ImportSucceededOnceStarted` and `VmStatusPhase` in the legacy module. Each
one is defined just before the definition it can replace. The mutation
checks listed in `PROJECT.json` use them to show that each property rejects
a plausible bug in the code.

### The abstract specification and the refinement

`InstanceEnforcement` states the promise in three rules:

1. A reconciliation begins by taking a view: `spec.running` and the template
   resources, at a moment when the Instance, Template and Tenant exist and
   the allow-list selects the Instance's namespace.
2. While the view is active, every write to a child moves that child to
   what the view asks for, one child per step, in any order:
   - a VM environment's Secret exists;
   - the Service, the GUI Ingress (containers and GUI VMs) and the
     file-browser Ingress (containers) exist iff the view is running;
   - the VM or the Deployment carries the view's running flag;
   - a VMI is created only when running, and is never deleted;
   - a spec is forged only when its object is created.
3. Between any two steps the inputs may change. The garbage collector
   removes the children of a deleted Instance, and others may delete the
   Service.

`InstanceReconciler` refines it with a mapping that drops status, IP,
KubeVirt progress and Deployment readiness from the objects, and maps
`selected` to `nsSelected`. The view is
`[active |-> pc # "Idle", running |-> loc.running, res |-> loc.res]`.
`EnforcementRefined == Enforcement!Spec` is checked as a PROPERTY. It is
stronger than the `SpecFrozen` invariant it replaces: within one
reconciliation, every enforcer acts on the same `spec.running`, and that
value is the one the Instance had when the reconciliation started.

### How `LegacyVMCreation` corresponds to the code

Nothing under `src/` calls `CreateVMEnvironment`. Its caller is modelled as
one that calls it again whenever a call has returned, at most `MaxCalls`
times. Between calls, the user flips `spec.running`, the template author
edits the resources, and CDI imports the disk.

| Action | Code (`logic.go`) |
|---|---|
| `CreateVMEnvironment` | lines 19–46: the entry; a failed read of credentials or keys is only logged |
| `CreatePersistentLogic` | lines 99–121: CreateOrUpdate of the DataVolume; if the import has not Succeeded, the reason becomes Importing and the call returns nil |
| `CreateSecret` | lines 48–57: a failure only records SecretNotCreated |
| `CreateExposition` | lines 59–62 |
| `CreateWorkload` | lines 64–96: the VM is re-forged on every call, or the VMI is forged once. The reason is set, and a `getVmiStatus` goroutine starts (it is counted in `pollers`) |

## 3. Runs

| Run | Config | Expect | Checks |
|---|---|---|---|
| reconcile_persistent | `MC_reconcile_persistent.cfg` | pass | `TypeOK`, `QuiescentConsistent`, `ConflictKeepsPhase`, `EventuallyConverged`, `EventuallyIdle` for persistent VMs, with and without GUI (about 2.5 min) |
| reconcile_ephemeral | `MC_reconcile_ephemeral.cfg` | pass | `QuiescentConsistent`, `EnforcementRefined`, `EventuallyConverged` for ephemeral VMIs (about 1.5 min) |
| external_deletion | `MC_external_deletion.cfg` | pass | `EnforcementRefined` when someone else may delete the Service and the namespace may be selected only later (persistent, with symmetry) |
| cache_lag | `MC_cache_lag.cfg` | pass | `ConflictKeepsPhase`, `EventuallyClusterConverged` with lagging informer caches, both environment classes (about 1.5 min) |
| reconcile_container | `MC_reconcile_container.cfg` | pass | `QuiescentConsistent`, `EnforcementRefined`, `EventuallyConverged`, `EventuallyIdle` for containers, with and without GUI, each either alone in its template or followed by a second VM environment (about 1.5 min) |
| namespace_unwatched | `MC_namespace_unwatched.cfg` | violation | `EventuallyConverged` when the namespace is labelled after the first reconciliation |
| service_unwatched | `MC_service_unwatched.cfg` | violation | `EventuallyConverged` when someone else may delete the Service |
| import_gating | `MC_import_gating.cfg` | violation | `NoWorkloadBeforeImport`, the import gating of spec §4.3/§8 |
| cache_stale_status | `MC_cache_stale_status.cfg` | violation | `QuiescentConsistent` with lagging caches |
| legacy_gating | `MC_legacy_gating.cfg` | pass | `TypeOK`, `NothingBeforeImport` on the legacy path |
| legacy_vm_reforged | `MC_legacy_vm_reforged.cfg` | violation | `VMSpecFrozen` on the legacy path |
| legacy_ephemeral_stopped | `MC_legacy_ephemeral_stopped.cfg` | violation | `StoppedEphemeralUntouched` on the legacy path |

What the properties say:

- **`QuiescentConsistent`.** Suppose the reconciler is idle, the key is not
  queued, and no watch event is undelivered. Then the cluster
  (`ClusterConverged`) and the persisted status (`StatusConverged`) match
  `spec.running` and the environment.
- **`ConflictKeepsPhase`.** A reconciliation that ends in a conflict leaves
  the persisted phase alone.
- **`EventuallyConverged`.** Once the Template and Tenant exist and the
  namespace is selected, the system
  reaches the converged state and stays there. For a deleted Instance,
  converged means no children are left.
- **`EventuallyIdle`.** Once the Template and Tenant exist, the
  controller eventually stays idle with nothing queued. A condition that
  retrying cannot change (a deleted Instance, a second environment, a
  child already gone) must not be returned as an error, or the work queue
  retries it forever.
- **`EventuallyClusterConverged`.** The same, for the cluster objects only,
  under a lagging cache.
- **`EnforcementRefined`.** The refinement described in §2.
- **Legacy properties.**
  - `NothingBeforeImport`: no Secret, exposition or VM exists while the disk
    of a persistent environment is importing.
  - `VMSpecFrozen`: an existing VM's spec is never rewritten.
  - `StoppedEphemeralUntouched`: a call for a stopped ephemeral Instance
    leaves the VMI alone.

Results:

- All six pass runs pass.
- **`namespace_unwatched`.** The first reconciliation skips the Instance
  (namespace not selected, `controller.go:99`); then the namespace is
  labelled, and nothing queues the key again. Namespaces are not watched,
  resyncs of the Instance are dropped by `GenerationChangedPredicate`, and
  the Instance has no child whose events could requeue it. It stays without
  children and with an empty status until its spec changes or the
  controller restarts. Spec §4.4 step 2 only says to skip; the spec does not
  say what selecting the namespace later should cause (a spec gap).
- **`service_unwatched`.** The Service is deleted after the last
  reconciliation, and the controller then stays idle with the Service
  missing. Services are not watched (`controller.go:207`), although spec §6
  promises that any owned child triggers a reconciliation. In a real
  cluster an unrelated event repairs it, for instance the periodic resync
  of the VM or VMI informer (hours apart by default). The model has no
  periodic resync, so its counterexample is idle forever.
- **`import_gating`.** The VM is created while its DataVolume template still
  imports. Only the legacy `createPersistentlogic` has the gating.
- **`cache_stale_status`.** This is TLC's counterexample, step by step:
  1. A reconciliation of a running Instance creates the Service and the
     VMI; its deferred patch has not run yet.
  2. The user stops the Instance, and the informer delivers the stop to
     the cache (which queues the key) before that patch is made.
  3. The deferred patch writes `status.ip` and the phase.
  4. The requeued reconciliation reads the cached Instance: stopped, with
     a status that predates the patch of step 3.
  5. It deletes the Service and resets `ip` to the snapshot's empty value,
     so the merge patch leaves `ip` out and carries only the phase Off.
  6. The stored status keeps the address of a deleted Service.
  7. The status event is filtered by `GenerationChangedPredicate`, so nothing
     queues the key again (`controller.go:153`).

  The same happens when the first reconciliation fails after creating the
  Service and patches CreationLoopBackOff. The stop must reach the cache
  before the patch; a stop made after it is read together with the patched
  status.
  The cluster objects themselves still converge (`cache_lag`).
- **`legacy_vm_reforged`.** `logic.go:70` forges the VM spec without the
  `IsZero` guard, so a template edit rewrites a live VM.
- **`legacy_ephemeral_stopped`.** `logic.go:78` creates the VMI whatever
  `spec.running` says.

### Bounds and why they suffice

The pass runs without cache lag use these bounds:

- **Two template resource versions.** An edit then makes a re-forged spec
  differ.
- **Two cluster addresses.** A recreated Service can get a different address.
- **`MaxFaults = 1`.** One failed API call or one restart, placed anywhere.
  This reaches every error branch, the patch failure and the restart.
- **`MaxUserOps = 2`.** Enough to race a flip against a reconciliation in
  flight and against the KubeVirt change that causes a conflict.
- **`MaxTemplateEdits = 1`.**
- **The Template and the Tenant.** Each may be missing at first.

With `MaxFaults = 2`, the persistent run takes about 5 minutes and finds
nothing more.

The container run uses the same bounds, over containers with and without
GUI (the GUI flag must not matter for containers). Its templates list the
container alone or followed by a VM environment. Two entries reach the
refusal at index 1, and a VM as the second entry would write objects the
container has none of (a Secret, a VM) if it were enforced. A third entry
would take the same refusal branch as the second. In `external_deletion`
the namespace starts selected or not; its question is only whether
anything is written before the namespace is selected.

The caches triple the state, so the cache runs use a smaller instance:

- no GUI;
- one resource version and one address;
- one user operation;
- no template edit.

With `MaxUserOps = 2` the run did not finish in 20 minutes. The cache
questions depend on these dimensions:

- a stale read of each of the three objects;
- one flip of `spec.running` racing an undelivered event;
- the AlreadyExists branches of both workload classes;
- one fault.

The cache run reaches all of them: the coverage shows every cache disjunct
fired.

The legacy runs use these bounds: four calls, one fault, two user flips and
one template edit, over both resource versions.

`CHECK_DEADLOCK FALSE` is set because the controller really does stop: it
sits idle with an empty queue, and the legacy caller may stop calling.

### Fairness

The model assumes these kinds of weak fairness:

- **The reconciler's steps.** The work queue hands every queued key to a
  worker, with rate-limited retries.
- **Each informer separately** (`SyncInstance`, `SyncVM`, `SyncVMI`). Every
  informer runs its own watch, so one busy informer never starves another.
- **KubeVirt's progress and the Deployment controller's.** Both are
  controllers that keep acting on the objects they own.
- **The garbage collector.**

Users, template authors, namespace administrators, external deletions, API failures, VMI guest
failures and restarts get no fairness. They happen a bounded number of
times, or not at all. The legacy module has only safety properties and
no fairness.

## 4. Not modelled, and why

- **Reads of intermediate cache versions.** An informer delivers all of an
  object's pending events in one step, so the reconciler never reads a
  version between the cached one and the latest. Whether a passing
  Instance event is among them is still tracked (`instEvent`).
- **The `getVmiStatus` goroutine** (`logic.go:93`). Its body, and every
  caller of `CreateVMEnvironment`, are absent from the sources, so which
  status writes race cannot be stated. Only the starts are counted.
- **Containers behind a lagging cache, and a container's volume claim.**
  The container enforcer is modelled from the spec, since its code is not
  among the sources. It is checked without cache lag only (an ASSUME says
  so), and a persistent container's claim is not modelled because the spec
  says nothing of it.
- **Templates with no environment.** The spec glossary defines a Template as one or
  more environments, and the model's entry pointers need one. Past
  two entries the loop refuses each one the same way, so two suffice.
- **An error from the namespace check** is one of the generic prologue
  failures; removing the labels from a namespace is not modelled.
- **The forge package.** Its code is not among the sources, only its tests.
  A module written from the spec formulas of §4.1/§8 would check the spec
  against itself and say nothing about the code. A forged spec is
  abstracted to the resource version it came from.
- **`TenantInto`.** It only feeds the logger.
- **Events and logging.** They have no effect on state.
- **Several Instances.** Their children never share names and the work
  queue keys them apart, so one Instance shows every interaction.

## 5. What remains

These were tried or weighed and left out:

1. **Liveness under cache lag with two user operations.** The run did not
   finish in 20 minutes, so `EventuallyClusterConverged` is checked with
   one user operation.
2. **Containers under cache lag.** The container enforcer's code is not
   among the sources. Adding a Deployment cache would model from the spec
   detail that the code may not have.
3. **Several Instances sharing the worker pool.** They share only the
   Template and Tenant, which the reconciler only reads, so nothing
   couples them.
