--------------------------- MODULE MCControlPlane ---------------------------
(***************************************************************************)
(* The HTTP API: HttpFront (rate limiter, authentication, idempotency), and *)
(* behind it AgentCatalog (agents, environments, sessions, delegation       *)
(* tokens) and VaultCredentials (vaults and the runs that use them), and    *)
(* behind these the store: what its two backends answer (StoreParity) and   *)
(* how the database is opened (StoreOpen).  A session's binding to its      *)
(* vault never changes and the five share no other state, so a behaviour    *)
(* exercises one of them.                                                   *)
(***************************************************************************)
EXTENDS AgentCatalog, VaultCredentials, HttpFront, StoreParity, StoreOpen

CONSTANTS c1, c2

(* c1 is the organisation's credential, c2 that of one service.             *)
MCPrefix == (c1 :> 1) @@ (c2 :> 2)

VARIABLE part   \* "catalog", "vault", "front", "store" or "open"

handlers == <<catalogVars, vaultVars, frontVars>>
backends == <<storeVars, openVars>>
vars     == <<part, handlers, backends>>

Init ==
    /\ part \in {"catalog", "vault", "front", "store", "open"}
    /\ CatalogInit /\ VaultInit /\ FrontInit
    /\ StoreInit /\ (part # "store" => group = "users")
    /\ OpenInit /\ (part # "open" => tables = NoDatabase /\ envKey = NoKey)

Next ==
    /\ UNCHANGED part
    /\ \/ part = "catalog" /\ CatalogNext /\ UNCHANGED <<vaultVars, frontVars, backends>>
       \/ part = "vault" /\ VaultNext /\ UNCHANGED <<catalogVars, frontVars, backends>>
       \/ part = "front" /\ FrontNext /\ UNCHANGED <<catalogVars, vaultVars, backends>>
       \/ part = "store" /\ StoreNext /\ UNCHANGED <<handlers, openVars>>
       \/ part = "open" /\ OpenNext /\ UNCHANGED <<handlers, storeVars>>

Spec == Init /\ [][Next]_vars

(* The router's own steps and its timers; the turn ends (router.ts bounds   *)
(* it by the run timeout).  Nothing is assumed of clients or providers.     *)
Fairness ==
    \A s \in Sessions :
        WF_vars(part = "vault" /\ RunStep(s) /\ UNCHANGED <<part, catalogVars, frontVars, backends>>)

FairSpec == Spec /\ Fairness
=============================================================================
