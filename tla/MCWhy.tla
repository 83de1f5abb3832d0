------------------------------- MODULE MCWhy --------------------------------
(***************************************************************************)
(* An instance of Why for TLC: a control plane with two machines, one of   *)
(* them with its bootstrap configuration in reach, and a pool of one       *)
(* worker.  A machine's objects share its name.                            *)
(***************************************************************************)
EXTENDS Why

Objects == {"dev", "infra", "kcp", "cp1", "cp1-vm", "cp1-boot", "cp2", "cp2-vm",
            "pool", "w", "w-vm"}

KindOf == [o \in Objects |->
    CASE o = "dev" -> "Cluster" [] o = "infra" -> "DevCluster"
      [] o = "kcp" -> "KubeadmControlPlane" [] o = "pool" -> "MachineDeployment"
      [] o \in {"cp1", "cp2", "w"} -> "Machine" [] o = "cp1-boot" -> "KubeadmConfig"
      [] OTHER -> "DevMachine"]

NameOf == [o \in Objects |->
    CASE o \in {"cp1", "cp1-vm", "cp1-boot"} -> 1 [] o \in {"cp2", "cp2-vm"} -> 2
      [] o \in {"w", "w-vm"} -> 3 [] OTHER -> 0]

Types == [o \in Objects |->
    CASE o = "dev" -> <<"Available", "TopologyReconciled">>
      [] o = "kcp" -> <<"EtcdClusterHealthy", "ScalingUp">>
      [] o = "cp1-vm" -> <<"VMProvisioned", "APIServerProvisioned">>
      [] o = "cp1-boot" -> <<"DataSecretAvailable">>
      [] o = "cp2" -> <<"NodeHealthy">>
      [] o \in {"cp2-vm", "w-vm"} -> <<"VMProvisioned">>
      [] o = "cp1" -> <<"Ready">>
      [] o = "pool" -> <<"MachinesReady">>
      [] OTHER -> <<>>]

InfraOf == [o \in Objects |->
    CASE o = "cp1" -> "cp1-vm" [] o = "cp2" -> "cp2-vm" [] o = "w" -> "w-vm"
      [] o = "dev" -> "infra" [] OTHER -> "none"]
BootstrapOf == [o \in Objects |-> IF o = "cp1" THEN "cp1-boot" ELSE "none"]

ContributorsOf == <<<<"infra">>, <<"kcp", "cp1", "cp2">>, <<"pool">>, <<>>>>
WatchedBy == <<{"infra"}, {"kcp", "cp1", "cp1-vm", "cp2", "cp2-vm"}, {"pool", "w", "w-vm"}, {}>>
=============================================================================
