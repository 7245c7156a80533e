------------------------------ MODULE KubeVirt ------------------------------
(***************************************************************************)
(* The KubeVirt objects the instance controller creates, seen from the     *)
(* controller: the printable status of a VirtualMachine, the phase of a    *)
(* VirtualMachineInstance, how KubeVirt moves them (the environment), and  *)
(* how the controller derives the Instance phase from them                 *)
(* (RetrievePhaseFromVM / RetrievePhaseFromVMI, whose code is not part of  *)
(* the sources at hand and is modelled from spec section 4.3 step 5).      *)
(***************************************************************************)

\* Printable status of a VirtualMachine; "" before KubeVirt has seen it.
\* "Provisioning" is the import of the DataVolume of its disk template.
VMStatuses == {"", "Provisioning", "Starting", "Running", "Stopping", "Stopped"}

\* Phase of a VirtualMachineInstance; "" before KubeVirt has seen it.
VMIPhases == {"", "Pending", "Running", "Failed"}

\* Instance phases (clv1alpha2.EnvironmentPhase*); "" is EnvironmentPhaseUnset.
Phases == {"", "Importing", "Starting", "Running", "Stopping", "Off",
           "Failed", "CreationLoopBackoff"}

\* RetrievePhaseFromVM: the Instance phase shown for a VM printable status.
RetrievePhaseFromVM(s) ==
    CASE s = ""             -> ""
      [] s = "Provisioning" -> "Importing"
      [] s = "Starting"     -> "Starting"
      [] s = "Running"      -> "Running"
      [] s = "Stopping"     -> "Stopping"
      [] s = "Stopped"      -> "Off"

\* RetrievePhaseFromVMI: the Instance phase shown for a VMI phase.
RetrievePhaseFromVMI(p) ==
    CASE p = ""        -> ""
      [] p = "Pending" -> "Starting"
      [] p = "Running" -> "Running"
      [] p = "Failed"  -> "Failed"

(***************************************************************************)
(* KubeVirt's own controllers (environment, not repository code): the      *)
(* statuses a VM may move to next, given its spec.running flag. A VM with  *)
(* a DataVolume template first imports its disk, then starts or stays      *)
(* stopped according to the flag.                                          *)
(***************************************************************************)
VMNextStatuses(s, running) ==
    CASE s = ""             -> {"Provisioning"}
      [] s = "Provisioning" -> {IF running THEN "Starting" ELSE "Stopped"}
      [] s = "Stopped"      -> IF running THEN {"Starting"} ELSE {}
      [] s = "Starting"     -> {IF running THEN "Running" ELSE "Stopping"}
      [] s = "Running"      -> IF running THEN {} ELSE {"Stopping"}
      [] s = "Stopping"     -> {"Stopped"}

\* A VMI is scheduled and boots; it never comes back from Failed.
VMINextPhases(p) ==
    CASE p = ""        -> {"Pending"}
      [] p = "Pending" -> {"Running"}
      [] p = "Running" -> {}
      [] p = "Failed"  -> {}
=============================================================================
