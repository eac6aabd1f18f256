-------------------------- MODULE ContainerRuntime --------------------------
(***************************************************************************)
(* The containers of the orchestrator, as the pools see them through the    *)
(* ContainerRuntime interface (src/runtime/container.ts, docker.ts): spawn  *)
(* starts one, stop is an awaited call at whose end it is gone.  A container *)
(* carries for ever the configuration it was started with, of which the     *)
(* pools keep a fingerprint (buildContainerConfigSignature): here a pair of *)
(* the agent and the version of its boot options.                           *)
(***************************************************************************)
EXTENDS Integers, FiniteSets

CONSTANTS
    Agents,
    Versions,     \* versions of an agent's boot options
    Containers,   \* bound: the containers that may ever be started
    Mounts,       \* host directories a warm container may start from
    None

Configs == Agents \X Versions

ASSUME NoneAssumption ==
    None \notin Agents \cup Containers \cup Configs \cup Mounts

VARIABLES
    ctr,      \* per container: unused, up, stopping or gone
    config,   \* per container: what it was started with
    mount     \* per container: its warm directory, None if a session's own

runtime == <<ctr, config, mount>>

RuntimeTypeOK ==
    /\ ctr \in [Containers -> {"unused", "up", "stopping", "gone"}]
    /\ config \in [Containers -> Configs \cup {None}]
    /\ mount \in [Containers -> Mounts \cup {None}]

RuntimeInit ==
    /\ ctr = [c \in Containers |-> "unused"]
    /\ config = [c \in Containers |-> None]
    /\ mount = [c \in Containers |-> None]

Spawn(c, cfg, m) ==
    /\ ctr[c] = "unused"
    /\ ctr' = [ctr EXCEPT ![c] = "up"]
    /\ config' = [config EXCEPT ![c] = cfg]
    /\ mount' = [mount EXCEPT ![c] = m]

(* stop.  Who stops one that is being stopped already, or is gone, swallows *)
(* the error, if there is one.                                              *)
Stop(c) ==
    /\ ctr' = [ctr EXCEPT ![c] = IF ctr[c] = "up" THEN "stopping" ELSE ctr[c]]
    /\ UNCHANGED <<config, mount>>

StopEnds(c) ==
    /\ ctr[c] = "stopping"
    /\ ctr' = [ctr EXCEPT ![c] = "gone"]
    /\ UNCHANGED <<config, mount>>

(* Whoever awaits stop(c), or awaits nothing, may go on.                    *)
Gone(c) == c # None => ctr[c] = "gone"
=============================================================================
