------------------------- MODULE InstanceEnforcement -------------------------
(***************************************************************************)
(* What the enforcement of one Instance promises (spec sections 4.2-4.4,   *)
(* 5), stated without the steps of any implementation. A reconciliation   *)
(* takes one view of the Instance and Template when it starts, and only   *)
(* for an Instance in a namespace the allow-list selects; while it is      *)
(* active, every write it makes to a child moves that child to the state  *)
(* the view asks for, one child at a time, in any order, and any of them  *)
(* may be skipped when a call fails:                                       *)
(*   - a VM environment's Secret exists;                                   *)
(*   - running: the Service, the GUI Ingress of a container or a GUI VM,   *)
(*     and a container's file-browser Ingress exist; not running: the      *)
(*     Service and both Ingresses are absent;                              *)
(*   - container: the Deployment exists with the view's running flag;      *)
(*   - persistent VM: the VM exists with the view's running flag;          *)
(*     ephemeral VM and running: the VMI exists; a VMI is never deleted;   *)
(*   - a spec is forged from the view only when its object is created.     *)
(* The world changes between any two writes: users edit or delete the     *)
(* Instance, the template author edits it, the garbage collector removes  *)
(* the children of a deleted Instance, others may delete the Service.     *)
(***************************************************************************)
CONSTANTS Resources, Environments, ExternalDeletion

NoSpec == "nospec"

VARIABLES
    instance,       \* the Instance: exists, spec.running
    env,            \* the template's environment: class, persistent, guiEnabled
    selected,       \* the Instance's namespace is selected by the allow-list
    template,       \* the template: present, resources
    tenantPresent,  \* the Tenant exists
    secret, service, ingressGUI, ingressMyDrive, vm, vmi, deploy,
    view            \* the active reconciliation's view: active, running, resources

vars == <<instance, env, selected, template, tenantPresent, secret, service, ingressGUI,
          ingressMyDrive, vm, vmi, deploy, view>>
children == <<secret, service, ingressGUI, ingressMyDrive, vm, vmi, deploy>>
inputs == <<instance, env, selected, template, tenantPresent>>

Absent == [exists |-> FALSE, spec |-> NoSpec]
NoWorkload == [exists |-> FALSE, spec |-> NoSpec, running |-> FALSE]
IsVM == env.class = "VM"
IsContainer == env.class = "Container"

Init ==
    /\ instance \in [exists: {TRUE}, running: BOOLEAN]
    /\ env \in Environments
    /\ selected \in BOOLEAN
    /\ template \in [present: BOOLEAN, res: Resources]
    /\ tenantPresent \in BOOLEAN
    /\ secret = FALSE
    /\ service = Absent /\ ingressGUI = Absent /\ ingressMyDrive = Absent
    /\ vm = NoWorkload /\ deploy = NoWorkload
    /\ vmi = Absent
    /\ view \in [active: {FALSE}, running: BOOLEAN, res: Resources]

\* The spec an object has after a write under the current view.
Forged(o) == IF o.exists THEN o.spec ELSE view.res

\* A reconciliation starts from the Instance, Template and Tenant it reads.
Begin ==
    /\ ~view.active /\ instance.exists /\ selected /\ template.present /\ tenantPresent
    /\ view' = [active |-> TRUE, running |-> instance.running, res |-> template.res]
    /\ UNCHANGED <<inputs, children>>

\* It returns, successfully or not, or the controller restarts.
Finish ==
    /\ view.active /\ view' = [view EXCEPT !.active = FALSE]
    /\ UNCHANGED <<inputs, children>>

\* One write to one child, towards what the view asks for.
Enforce ==
    /\ view.active
    /\ \/ IsVM /\ secret' = TRUE
          /\ UNCHANGED <<service, ingressGUI, ingressMyDrive, vm, vmi, deploy>>
       \/ view.running /\ service' = [exists |-> TRUE, spec |-> Forged(service)]
          /\ UNCHANGED <<secret, ingressGUI, ingressMyDrive, vm, vmi, deploy>>
       \/ view.running /\ (IsContainer \/ env.guiEnabled)
          /\ ingressGUI' = [exists |-> TRUE, spec |-> Forged(ingressGUI)]
          /\ UNCHANGED <<secret, service, ingressMyDrive, vm, vmi, deploy>>
       \/ view.running /\ IsContainer
          /\ ingressMyDrive' = [exists |-> TRUE, spec |-> Forged(ingressMyDrive)]
          /\ UNCHANGED <<secret, service, ingressGUI, vm, vmi, deploy>>
       \/ ~view.running /\ service' = Absent
          /\ UNCHANGED <<secret, ingressGUI, ingressMyDrive, vm, vmi, deploy>>
       \/ ~view.running /\ ingressGUI' = Absent
          /\ UNCHANGED <<secret, service, ingressMyDrive, vm, vmi, deploy>>
       \/ ~view.running /\ ingressMyDrive' = Absent
          /\ UNCHANGED <<secret, service, ingressGUI, vm, vmi, deploy>>
       \/ IsContainer
          /\ deploy' = [exists |-> TRUE, spec |-> Forged(deploy), running |-> view.running]
          /\ UNCHANGED <<secret, service, ingressGUI, ingressMyDrive, vm, vmi>>
       \/ IsVM /\ env.persistent
          /\ vm' = [exists |-> TRUE, spec |-> Forged(vm), running |-> view.running]
          /\ UNCHANGED <<secret, service, ingressGUI, ingressMyDrive, vmi, deploy>>
       \/ IsVM /\ ~env.persistent /\ view.running
          /\ vmi' = [exists |-> TRUE, spec |-> Forged(vmi)]
          /\ UNCHANGED <<secret, service, ingressGUI, ingressMyDrive, vm, deploy>>
    /\ UNCHANGED <<inputs, view>>

\* Users and template authors change the inputs; a deleted Instance stays
\* deleted and the environment's class is fixed.
ChangeInputs ==
    /\ instance' \in [exists: IF instance.exists THEN BOOLEAN ELSE {FALSE},
                         running: BOOLEAN]
    /\ template' \in [present: {TRUE, template.present}, res: Resources]
    /\ tenantPresent' \in {TRUE, tenantPresent}
    /\ selected' \in {TRUE, selected}
    /\ UNCHANGED <<env, children, view>>

\* The garbage collector removes a child of a deleted Instance; others may
\* remove the Service.
Remove ==
    /\ \/ ~instance.exists /\ secret' = FALSE
          /\ UNCHANGED <<service, ingressGUI, ingressMyDrive, vm, vmi, deploy>>
       \/ (~instance.exists \/ ExternalDeletion) /\ service' = Absent
          /\ UNCHANGED <<secret, ingressGUI, ingressMyDrive, vm, vmi, deploy>>
       \/ ~instance.exists /\ ingressGUI' = Absent
          /\ UNCHANGED <<secret, service, ingressMyDrive, vm, vmi, deploy>>
       \/ ~instance.exists /\ ingressMyDrive' = Absent
          /\ UNCHANGED <<secret, service, ingressGUI, vm, vmi, deploy>>
       \/ ~instance.exists /\ vm' = NoWorkload
          /\ UNCHANGED <<secret, service, ingressGUI, ingressMyDrive, vmi, deploy>>
       \/ ~instance.exists /\ vmi' = Absent
          /\ UNCHANGED <<secret, service, ingressGUI, ingressMyDrive, vm, deploy>>
       \/ ~instance.exists /\ deploy' = NoWorkload
          /\ UNCHANGED <<secret, service, ingressGUI, ingressMyDrive, vm, vmi>>
    /\ UNCHANGED <<inputs, view>>

Next == Begin \/ Finish \/ Enforce \/ ChangeInputs \/ Remove

Spec == Init /\ [][Next]_vars
=============================================================================
