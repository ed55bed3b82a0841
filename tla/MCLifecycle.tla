---------------------------- MODULE MCLifecycle ----------------------------
(***************************************************************************)
(* Who lives how long, checked side by side: the natives of the plugin     *)
(* module and the latent nodes share no state, so a behaviour is one of    *)
(* one of them, and the other stays where it starts.                       *)
(***************************************************************************)
EXTENDS SioPlugin, SioLatent

VARIABLE part

lifecycleVars == <<part, pluginVars, latentVars>>

LifecycleInit ==
    /\ part \in {"plugin", "latent"}
    /\ PluginInit /\ (part # "plugin" => scoped = [c \in Comps |-> None])
    /\ LatentInit

LifecycleNext ==
    /\ part' = part
    /\ \/ part = "plugin" /\ PluginNext /\ UNCHANGED latentVars
       \/ part = "latent" /\ LatentNext /\ UNCHANGED pluginVars

LifecycleSpec ==
    LifecycleInit /\ [][LifecycleNext]_lifecycleVars /\ PluginFairness /\ LatentFairness
=============================================================================
