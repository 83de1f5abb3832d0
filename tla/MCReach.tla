------------------------------ MODULE MCReach -------------------------------
(* Two clusters, `a` and `b`, of one class and with one resource set that   *)
(* applies to both; every subset of the references and owner references     *)
(* CAPI makes of them, the stale ones included: a class that owns a        *)
(* template it no longer names, an object that owns its own owner, and a    *)
(* reference to an object that is not there.                               *)
EXTENDS Reach

Objects == 1 .. 8

Kinds == <<"Cluster", "Cluster", "ClusterClass", "ClusterResourceSet",
           "ClusterResourceSetBinding", "ClusterResourceSetBinding",
           "DockerMachineTemplate", "Machine">>

Owners == <<"a", "b", "none", "none", "a", "b", "none", "a">>

References == {<<1, "classRef", 3>>, <<3, "templateRef", 7>>,
               <<5, "clusterResourceSetName", 4>>,
               <<1, "contractRef", 8>>, <<8, "contractRef", 7>>,
               <<8, "contractRef", 9>>}

Ownership == {<<1, 8>>, <<3, 7>>, <<4, 5>>, <<4, 6>>, <<8, 1>>}

Marks == {5, 6, 8}
=============================================================================
