-------------------------- MODULE LegacyVMCreation --------------------------
(***************************************************************************)
(* The legacy creation path of a VM environment (instance-controller/      *)
(* logic.go): CreateVMEnvironment and createPersistentlogic. One call      *)
(* creates, in this order, the DataVolume of a persistent environment      *)
(* (returning early while its import has not succeeded), the cloud-init    *)
(* Secret, the exposition, and the VM or VMI, and writes the Instance      *)
(* status with setInstanceStatus after each outcome.                       *)
(*                                                                         *)
(* Nothing under src/ calls CreateVMEnvironment; its caller is abstracted  *)
(* as one that may invoke it again whenever a call has returned, with the  *)
(* user flipping spec.running, the template author editing the resources  *)
(* and CDI importing the disk in between.                                  *)
(***************************************************************************)
EXTENDS Naturals

CONSTANTS
    Resources,          \* versions of the environment's resource shape
    Environments,       \* the environments the template may hold
    MaxCalls,           \* invocations of CreateVMEnvironment
    MaxFaults,          \* failed API calls
    MaxUserOps,         \* user edits of spec.running
    MaxTemplateEdits    \* edits of the environment's resources

ASSUME Resources # {} /\ {MaxCalls, MaxFaults, MaxUserOps, MaxTemplateEdits} \subseteq Nat
ASSUME Environments \subseteq [persistent: BOOLEAN, guiEnabled: BOOLEAN]

NoSpec == "nospec"

VARIABLES
    running,        \* instance.Spec.Running
    env,            \* the environment: persistent, guiEnabled
    res,            \* the environment's current resource shape
    dv,             \* the DataVolume: exists, import phase
    secret,         \* the cloud-init Secret exists
    exposed,        \* the Service (and Ingress) of the exposition exist
    vm,             \* the VirtualMachine: exists, spec forged from, running flag
    vmi,            \* the VirtualMachineInstance: exists, spec forged from
    reason,         \* the status reason last written by setInstanceStatus
    pollers,        \* getVmiStatus goroutines started so far
    pc,             \* position in CreateVMEnvironment
    loc,            \* the call's arguments: spec.running and resources as passed
    calls, faults, userOps, edits

vars == <<running, env, res, dv, secret, exposed, vm, vmi, reason, pollers, pc, loc,
          calls, faults, userOps, edits>>

\* CDI DataVolume phases the code tells apart: Succeeded or not yet.
DVPhases == {"", "ImportInProgress", "Succeeded"}

\* The reasons setInstanceStatus writes on this path ("" before any write).
Reasons == {"", "Importing", "SecretNotCreated", "VmiNotCreated", "VmiCreated", "VmiOff"}

PCs == {"Idle", "DataVolume", "Secret", "Exposition", "Workload"}

TypeOK ==
    /\ running \in BOOLEAN
    /\ env \in [persistent: BOOLEAN, guiEnabled: BOOLEAN]
    /\ res \in Resources
    /\ dv \in [exists: BOOLEAN, phase: DVPhases]
    /\ secret \in BOOLEAN /\ exposed \in BOOLEAN
    /\ vm \in [exists: BOOLEAN, spec: Resources \cup {NoSpec}, running: BOOLEAN]
    /\ vmi \in [exists: BOOLEAN, spec: Resources \cup {NoSpec}]
    /\ reason \in Reasons
    /\ pollers \in 0..MaxCalls
    /\ pc \in PCs
    /\ loc \in [running: BOOLEAN, res: Resources]
    /\ calls \in 0..MaxCalls /\ faults \in 0..MaxFaults
    /\ userOps \in 0..MaxUserOps /\ edits \in 0..MaxTemplateEdits

Init ==
    /\ running \in BOOLEAN
    /\ env \in Environments
    /\ res \in Resources
    /\ dv = [exists |-> FALSE, phase |-> ""]
    /\ secret = FALSE /\ exposed = FALSE
    /\ vm = [exists |-> FALSE, spec |-> NoSpec, running |-> FALSE]
    /\ vmi = [exists |-> FALSE, spec |-> NoSpec]
    /\ reason = ""
    /\ pollers = 0
    /\ pc = "Idle"
    /\ loc = [running |-> FALSE, res |-> CHOOSE r \in Resources : TRUE]
    /\ calls = 0 /\ faults = 0 /\ userOps = 0 /\ edits = 0

CanFail == faults < MaxFaults

-----------------------------------------------------------------------------
(* The call *)

\* Entry of CreateVMEnvironment: the Webdav credentials and public keys are
\* read, and a failure of either is only logged; a persistent environment
\* goes to createPersistentlogic first.
CreateVMEnvironment ==
    /\ pc = "Idle" /\ calls < MaxCalls
    /\ calls' = calls + 1
    /\ loc' = [running |-> running, res |-> res]
    /\ pc' = IF env.persistent THEN "DataVolume" ELSE "Secret"
    /\ UNCHANGED <<running, env, res, dv, secret, exposed, vm, vmi, reason, pollers,
                   faults, userOps, edits>>

\* Bug variant: the import counted as done once CDI has started it.
ImportSucceededOnceStarted(d) == d.phase # ""

\* The gate of createPersistentlogic: the DataVolume as returned by
\* CreateOrUpdate reports phase Succeeded.
ImportSucceeded(d) == d.phase = "Succeeded"

\* createPersistentlogic: CreateOrUpdate of the DataVolume (a failure is
\* returned); while the import has not succeeded the status reason becomes
\* Importing and CreateVMEnvironment returns nil before anything else.
CreatePersistentLogic ==
    /\ pc = "DataVolume"
    /\ \/ /\ dv' = [exists |-> TRUE, phase |-> dv.phase]
          /\ IF ImportSucceeded(dv')
             THEN pc' = "Secret" /\ UNCHANGED reason
             ELSE pc' = "Idle" /\ reason' = "Importing"
          /\ UNCHANGED faults
       \/ CanFail /\ faults' = faults + 1 /\ pc' = "Idle" /\ UNCHANGED <<dv, reason>>
    /\ UNCHANGED <<running, env, res, secret, exposed, vm, vmi, pollers, loc, calls,
                   userOps, edits>>

\* CreateOrUpdate of the cloud-init Secret; a failure only sets the
\* SecretNotCreated reason and the call goes on.
CreateSecret ==
    /\ pc = "Secret"
    /\ \/ secret' = TRUE /\ UNCHANGED <<reason, faults>>
       \/ CanFail /\ faults' = faults + 1 /\ reason' = "SecretNotCreated" /\ UNCHANGED secret
    /\ pc' = "Exposition"
    /\ UNCHANGED <<running, env, res, dv, exposed, vm, vmi, pollers, loc, calls,
                   userOps, edits>>

\* CreateInstanceExpositionEnvironment; its error is returned.
CreateExposition ==
    /\ pc = "Exposition"
    /\ \/ exposed' = TRUE /\ pc' = "Workload" /\ UNCHANGED faults
       \/ CanFail /\ faults' = faults + 1 /\ pc' = "Idle" /\ UNCHANGED exposed
    /\ UNCHANGED <<running, env, res, dv, secret, vm, vmi, reason, pollers, loc, calls,
                   userOps, edits>>

\* Bug variant: the reason named after the environment phase.
VmStatusPhase(r) == IF r THEN "VmiCreated" ELSE "Off"

\* vmStatus: VmiOff only for a persistent environment that is not running.
VmStatus(r) == IF r THEN "VmiCreated" ELSE "VmiOff"

\* The workload: for a persistent environment CreateOrUpdate of the VM,
\* whose spec UpdateVirtualMachineSpec forges on every call together with
\* the running flag; otherwise CreateOrUpdate of the VMI, forged only at
\* creation and whatever spec.running says. A failure sets VmiNotCreated
\* and is returned; success sets vmStatus and, unless it is VmiOff, starts
\* the getVmiStatus goroutine.
CreateWorkload ==
    LET vmStatus == VmStatus(~env.persistent \/ loc.running) IN
    /\ pc = "Workload"
    /\ \/ /\ IF env.persistent
             THEN /\ vm' = [exists |-> TRUE, spec |-> loc.res, running |-> loc.running]
                  /\ UNCHANGED vmi
             ELSE /\ vmi' = [exists |-> TRUE,
                             spec |-> IF vmi.exists THEN vmi.spec ELSE loc.res]
                  /\ UNCHANGED vm
          /\ reason' = vmStatus
          /\ pollers' = IF vmStatus # "VmiOff" THEN pollers + 1 ELSE pollers
          /\ UNCHANGED faults
       \/ /\ CanFail /\ faults' = faults + 1
          /\ reason' = "VmiNotCreated"
          /\ UNCHANGED <<vm, vmi, pollers>>
    /\ pc' = "Idle"
    /\ UNCHANGED <<running, env, res, dv, secret, exposed, loc, calls, userOps, edits>>

-----------------------------------------------------------------------------
(* The environment *)

\* CDI imports the disk of an existing DataVolume.
CDIImport ==
    /\ dv.exists /\ dv.phase # "Succeeded"
    /\ dv' = [dv EXCEPT !.phase = IF @ = "" THEN "ImportInProgress" ELSE "Succeeded"]
    /\ UNCHANGED <<running, env, res, secret, exposed, vm, vmi, reason, pollers, pc, loc,
                   calls, faults, userOps, edits>>

\* The user flips spec.running.
UserSetRunning ==
    /\ userOps < MaxUserOps
    /\ running' = ~running /\ userOps' = userOps + 1
    /\ UNCHANGED <<env, res, dv, secret, exposed, vm, vmi, reason, pollers, pc, loc,
                   calls, faults, edits>>

\* The template author changes the environment's resources.
EditTemplate ==
    /\ edits < MaxTemplateEdits
    /\ \E r \in Resources \ {res} : res' = r
    /\ edits' = edits + 1
    /\ UNCHANGED <<running, env, dv, secret, exposed, vm, vmi, reason, pollers, pc, loc,
                   calls, faults, userOps>>

Next ==
    \/ CreateVMEnvironment \/ CreatePersistentLogic \/ CreateSecret
    \/ CreateExposition \/ CreateWorkload
    \/ CDIImport \/ UserSetRunning \/ EditTemplate

Spec == Init /\ [][Next]_vars

-----------------------------------------------------------------------------
(* Properties *)

\* Spec 4.3 step 3 and 8 (gating): while the DataVolume of a persistent
\* environment has not finished importing, no VM is started against it,
\* and createPersistentlogic returns before the Secret and the exposition
\* are created either.
NothingBeforeImport ==
    (env.persistent /\ dv.phase # "Succeeded") => ~(secret \/ exposed \/ vm.exists)

\* Spec 4.3 step 4 and 8 (idempotence): an existing VM's spec is never
\* rewritten by a later call; only its running flag is re-applied.
VMSpecFrozen ==
    [][vm.exists /\ vm'.exists => vm'.spec = vm.spec]_vm

\* Spec 4.3 step 5 and 8: a call for a non-persistent environment whose
\* Instance is not running leaves the VMI alone and reports Off.
StoppedEphemeralUntouched ==
    [][(pc = "Workload" /\ ~env.persistent /\ ~loc.running)
         => vmi' = vmi /\ reason' \in {"VmiOff", "VmiNotCreated"}]_vars
=============================================================================
