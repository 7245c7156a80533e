------------------------ MODULE MCInstanceReconciler ------------------------
(* Model-checking instance of InstanceReconciler: two resource versions of *)
(* the template, two cluster addresses, one class of environment per run.  *)
EXTENDS InstanceReconciler, TLC

CONSTANTS r1, r2, ip1, ip2

MCResources == {r1, r2}
MCClusterIPs == {ip1, ip2}

\* Persistent VM environments (VirtualMachine), with and without GUI.
PersistentEnvs == [class: {"VM"}, persistent: {TRUE}, guiEnabled: BOOLEAN]
\* Ephemeral VM environments (VirtualMachineInstance), with and without GUI.
EphemeralEnvs == [class: {"VM"}, persistent: {FALSE}, guiEnabled: BOOLEAN]
\* Container environments (Deployment), with and without GUI; the
\* persistent flag does not change what the container enforcer does here.
ContainerEnvs == [class: {"Container"}, persistent: {FALSE}, guiEnabled: BOOLEAN]

\* Both classes of environment, without GUI, one resource version and one
\* address: the smaller instance on which the informer caches are checked.
PlainEnvs == [class: {"VM"}, persistent: BOOLEAN, guiEnabled: {FALSE}]
OneResource == {r1}
OneClusterIP == {ip1}

\* Templates with a single environment, or a second entry that is an
\* ephemeral VM without GUI.
NoExtraEnvironment == {}
ExtraVM == [class: {"VM"}, persistent: {FALSE}, guiEnabled: {FALSE}]

\* The namespace selected from the start, not yet, or either.
SelectedAtStart == {TRUE}
UnselectedAtStart == {FALSE}
EitherSelection == BOOLEAN

\* Addresses and resource versions are interchangeable.
Symmetric == Permutations(MCClusterIPs) \cup Permutations(MCResources)
=============================================================================
