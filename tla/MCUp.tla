-------------------------------- MODULE MCUp --------------------------------
(***************************************************************************)
(* An instance of Up for TLC: a good file and files that differ from it in *)
(* one or two respects, three classes of which one is a misspelling and    *)
(* `cluster new` asked for both sizes, both placements and both suffixes.  *)
(***************************************************************************)
EXTENDS Up

std == [base |-> "std", hosted |-> FALSE]
stdHosted == [base |-> "std", hosted |-> TRUE]
st == [base |-> "st", hosted |-> FALSE]

Classes == <<st, std, stdHosted>>

\* "-hosted" is more than two letters, and three are enough.
Spellings == [c \in {st, std, stdHosted} |->
    CASE c = st -> <<"s", "t">> [] c = std -> <<"s", "t", "d">>
      [] c = stdHosted -> <<"s", "t", "d", "-", "h", "o">>]

P(name, replicas, keys) ==
    [name |-> name, backend |-> "machineDeployments", replicas |-> replicas, keys |-> keys]

V(rest) == [v |-> TRUE, rest |-> rest]
Bare(rest) == [v |-> FALSE, rest |-> rest]

Good ==
    [kind |-> "Cluster", name |-> "dev", class |-> std, classNamespace |-> "",
     version |-> V("1.34.11"), size |-> "", placement |-> "self", replicas |-> None,
     managed |-> {}, pools |-> <<P("a", 1, {})>>, label |-> FALSE, more |-> FALSE]

Bad ==
    {[Good EXCEPT !.kind = k] : k \in {"KubeadmControlPlane", "DockerMachineTemplate", "not YAML"}}
    \cup {[Good EXCEPT !.name = ""], [Good EXCEPT !.kind = "ConfigMap", !.version = Bare("1.34")]}
    \cup {[Good EXCEPT !.version = v] : v \in {NoVersion, Bare("${K8S}")}}
    \cup {[Good EXCEPT !.size = "huge"], [Good EXCEPT !.placement = "cloud"]}
    \cup {[Good EXCEPT !.managed = {m}] :
            m \in {<<"spec", "paused", "true">>, <<"topology", "class", "std">>,
                   <<"classRef", "kind", "mine">>, <<"controlPlane", "taints", "mine">>,
                   <<"workers", "others", "mine">>, <<"variables", "other", "mine">>}}
    \cup {[Good EXCEPT !.managed = {<<"spec", "infrastructureRef", "theirs">>}, !.label = l] :
            l \in BOOLEAN}
    \cup {[Good EXCEPT !.size = s[1], !.replicas = s[2]] : s \in {<<"ha", 1>>, <<"dev", 3>>, <<"", 3>>}}
    \cup {[Good EXCEPT !.pools = p] :
            p \in {<<P("", 1, {})>>, <<P("a", -1, {})>>, <<P("a", 1, {"healthCheck"})>>,
                   <<P("a", 1, {}), P("a", 2, {})>>}}

Fine ==
    {[Good EXCEPT !.size = s[1], !.placement = s[2], !.replicas = s[3]] :
        s \in {<<"", "", 1>>, <<"ha", "", 3>>, <<"", "hosted", None>>}}
    \cup {[Good EXCEPT !.class = c] : c \in {NoClass, stdHosted, st}}
    \cup {[Good EXCEPT !.class = stdHosted, !.placement = "hosted"]}
    \cup {[Good EXCEPT !.classNamespace = "other"]}
    \cup {[Good EXCEPT !.version = Bare("1.34.11")]}
    \cup {[Good EXCEPT !.pools = <<>>], [Good EXCEPT !.more = TRUE]}

Files == Fine \cup Bad

FlagSets ==
    {[name |-> "dev", class |-> f[1], version |-> f[2], size |-> f[3], placement |-> f[4],
      pools |-> <<P("a", 1, {})>>] :
        f \in {<<NoClass, V("1.34.11"), "ha", "hosted">>, <<std, Bare("1.34.11"), "ha", "self">>,
               <<stdHosted, V("1.34.11"), "dev", "self">>, <<std, Bare("1.34"), "dev", "self">>}}
=============================================================================
