-------------------------- MODULE VaultCredentials --------------------------
(***************************************************************************)
(* The credentials of ONE vault and the runs of the sessions bound to it:   *)
(* the OAuth refresh before a run, the stored tokens (src/store), and the   *)
(* token a container carries in its environment (AgentRouter in             *)
(* src/orchestrator/router.ts over the pool's active entries).              *)
(*                                                                          *)
(* The agent has one MCP server and every credential matches its URL; the   *)
(* longest prefix is the one put in the header.  The refresh tokens of a    *)
(* rotating provider are numbered as it issues them; an access token is     *)
(* known by the store's write that saved it (rev).  The provider is external: it may refuse, answer,  *)
(* stay silent, or answer when nobody listens any more.                     *)
(***************************************************************************)
EXTENDS Integers, FiniteSets, FiniteSetsExt

CONSTANTS
    Sessions,
    Creds,       \* credential ids
    Prefix,      \* per credential: the length of its matchUrl
    OAuth,       \* the mcp_oauth ones; the others are static bearers
    Rotating,    \* those whose provider withdraws a refresh token once used
    MaxRuns,     \* bound: runs of the sessions
    MaxLost      \* bound: answers that come after the 30 s are over

ASSUME VaultAssumption ==
    /\ IsFiniteSet(Sessions) /\ IsFiniteSet(Creds)
    /\ Prefix \in [Creds -> Nat]
    /\ \A c, d \in Creds : Prefix[c] = Prefix[d] => c = d
    /\ OAuth \subseteq Creds /\ Rotating \subseteq OAuth
    /\ MaxRuns \in Nat \ {0} /\ MaxLost \in Nat

VARIABLES
    vault,      \* is the vault there?
    cred,       \* per credential: the set of its row, {} if there is none
    provider,   \* per credential: the refresh token it takes, 0 if none yet
    run,        \* per session: how far its run got and what it has read;
                \* floor is the oldest rev of each credential it may still
                \* use, beyond all for a deleted one
    box,        \* per session: the set of its active container
    lost,       \* the credentials for which an answer was lost
    runs        \* runs so far

vaultVars == <<vault, cred, provider, run, box, lost, runs>>

(* A run refreshes a credential at most once.                               *)
MaxRev  == 1 + MaxRuns
Numbers == 0 .. MaxRev
Rows    == [rev : Numbers, refresh : Numbers, fresh : BOOLEAN]
Bearers == [cred : Creds, rev : Numbers]
Items   == [cred : Creds, refresh : Numbers]
Exchange == [stage : {"asked", "granted", "refused"}, item : Items, new : Numbers]
NoRun   == [pc |-> "idle", todo |-> {}, ask |-> {}, env |-> {},
            floor |-> [c \in Creds |-> 0]]

VaultTypeOK ==
    /\ vault \in BOOLEAN
    /\ \A c \in Creds : /\ cred[c] \subseteq Rows /\ Cardinality(cred[c]) <= 1
                        /\ cred[c] # {} => vault
                        /\ provider[c] \in Numbers
    /\ \A s \in Sessions :
          /\ run[s].pc \in {"idle", "refresh", "acquire", "turn"}
          /\ run[s].todo \subseteq Items /\ run[s].ask \subseteq Exchange
          /\ Cardinality(run[s].ask) <= 1
          /\ run[s].pc # "refresh" => run[s].todo = {} /\ run[s].ask = {}
          /\ run[s].env \subseteq Bearers
          /\ box[s] \subseteq [env : SUBSET Bearers, newer : SUBSET Creds]
          /\ run[s].pc = "turn" => Cardinality(box[s]) = 1
    /\ lost \subseteq Creds /\ runs \in 0 .. MaxRuns

VaultInit ==
    /\ vault = TRUE /\ lost = {} /\ runs = 0
    /\ cred = [c \in Creds |-> {}]
    /\ provider = [c \in Creds |-> 0]
    /\ run = [s \in Sessions |-> NoRun]
    /\ box = [s \in Sessions |-> {}]

----------------------------------------------------------------------------
(* The store.                                                               *)

Present == {c \in Creds : cred[c] # {}}
Row(c)  == CHOOSE row \in cred[c] : TRUE

(* A container is older than the update of a credential: updated_at is      *)
(* greater than the entry's spawnedAt.                                      *)
Touch(c) == box' = [s \in Sessions |-> {[b EXCEPT !.newer = @ \cup {c}] : b \in box[s]}]

(* A deleted row is compared with no container.                             *)
Forget(gone) == box' = [s \in Sessions |-> {[b EXCEPT !.newer = @ \ gone] : b \in box[s]}]

(* addCredential, with the tokens of the OAuth flow the developer has run.  *)
AddCredential ==
    /\ vault
    /\ \E c \in Creds :
          /\ cred[c] = {} /\ provider[c] = 0  \* ids are not used again
          /\ provider' = [provider EXCEPT ![c] = 1]
          /\ cred' = [cred EXCEPT ![c] = {[rev |-> 1, refresh |-> 1, fresh |-> TRUE]}]
          /\ Touch(c)
    /\ UNCHANGED <<vault, run, lost, runs>>

(* expiresAt is less than a minute away.                                    *)
Expire ==
    /\ \E c \in Present \cap OAuth :
          /\ Row(c).fresh
          /\ cred' = [cred EXCEPT ![c] = {[Row(c) EXCEPT !.fresh = FALSE]}]
    /\ UNCHANGED <<vault, provider, run, box, lost, runs>>

DeleteCredential ==
    /\ \E c \in Present : cred' = [cred EXCEPT ![c] = {}] /\ Forget({c})
    /\ UNCHANGED <<vault, provider, run, lost, runs>>

(* The credentials go with their vault; sessions stay bound to its id.      *)
DeleteVault ==
    /\ vault /\ vault' = FALSE
    /\ cred' = [c \in Creds |-> {}] /\ Forget(Creds)
    /\ UNCHANGED <<provider, run, lost, runs>>

(* Mutant: the refresh token is never replaced.                             *)
UpdateOAuthTokens_KeepRefresh(c, token) ==
    cred' = [cred EXCEPT ![c] = {[row EXCEPT !.rev = @ + 1, !.fresh = TRUE] : row \in @}]

(* updateOAuthTokens: a provider that returns no refresh token leaves the   *)
(* old one, and a credential deleted in the meantime stays deleted.         *)
UpdateOAuthTokens(c, token) ==
    cred' = [cred EXCEPT ![c] =
        {[rev |-> row.rev + 1, refresh |-> token, fresh |-> TRUE] : row \in @}]

----------------------------------------------------------------------------
(* A run: refresh what expires, evict, build the options, acquire, run.     *)

(* injectVaultCredentials: the longest prefix wins.                         *)
Bearer ==
    {[cred |-> c, rev |-> Row(c).rev] :
        c \in {d \in Present : \A e \in Present : Prefix[e] <= Prefix[d]}}

(* refreshExpiringOAuthCredentials reads the rows once, before its first    *)
(* await; it refreshes every credential that matches, one after the other.  *)
Expiring == {[cred |-> c, refresh |-> Row(c).refresh] :
                c \in {d \in Present \cap OAuth : ~Row(d).fresh}}

Floor == [c \in Creds |-> CASE c \in Present    -> Row(c).rev
                            [] provider[c] = 0 -> 0
                            [] OTHER           -> MaxRev + 1]

StartRun(s) ==
    /\ run[s].pc = "idle" /\ runs < MaxRuns /\ runs' = runs + 1
    /\ run' = [run EXCEPT ![s] = [NoRun EXCEPT !.pc = "refresh", !.todo = Expiring,
                                               !.floor = Floor]]
    /\ UNCHANGED <<vault, cred, provider, box, lost>>

(* performOAuthRefresh posts the refresh token it has read.                 *)
Ask(s) ==
    /\ run[s].pc = "refresh" /\ run[s].ask = {}
    /\ \E item \in run[s].todo :
          run' = [run EXCEPT
             ![s].todo = @ \ {item},
             ![s].ask  = {[stage |-> "asked", item |-> item, new |-> 0]}]
    /\ UNCHANGED <<vault, cred, provider, box, lost, runs>>

(* The provider takes the token, and a rotating one takes no other from     *)
(* then on than the one it hands out; or it refuses.                        *)
Takes(item) == item.refresh = provider[item.cred]

ProviderGrants(s) ==
    /\ \E x \in run[s].ask :
          LET c == x.item.cred
              n == IF c \in Rotating THEN provider[c] + 1 ELSE provider[c]
          IN  /\ x.stage = "asked" /\ Takes(x.item)
              /\ provider' = [provider EXCEPT ![c] = n]
              /\ run' = [run EXCEPT ![s].ask = {[x EXCEPT !.stage = "granted", !.new = n]}]
    /\ UNCHANGED <<vault, cred, box, lost, runs>>

ProviderRefuses(s) ==
    /\ \E x \in run[s].ask :
          /\ x.stage = "asked" /\ ~Takes(x.item)
          /\ run' = [run EXCEPT ![s].ask = {[x EXCEPT !.stage = "refused"]}]
    /\ UNCHANGED <<vault, cred, provider, box, lost, runs>>

(* The answer reaches the router: the tokens are stored.                    *)
Refreshed(s) ==
    /\ \E x \in run[s].ask :
          /\ x.stage = "granted"
          /\ UpdateOAuthTokens(x.item.cred, x.new)
          /\ IF x.item.cred \in Present THEN Touch(x.item.cred) ELSE UNCHANGED box
    /\ run' = [run EXCEPT ![s].ask = {}]
    /\ UNCHANGED <<vault, provider, lost, runs>>

(* credential_expired: the run fails before it has touched a container.     *)
Expired(s) == run' = [run EXCEPT ![s] = NoRun]

(* Mutant: the request to the token endpoint has no time limit.             *)
TimesOut_Never(x) == FALSE

(* AbortSignal.timeout: 30 s, wherever the exchange is.                     *)
TimesOut(x) == x.stage \in {"asked", "granted"}

RefreshFails(s) ==
    /\ \E x \in run[s].ask :
          /\ x.stage = "refused" \/ (x.stage = "asked" /\ TimesOut(x))
          /\ Expired(s)
    /\ UNCHANGED <<vault, cred, provider, box, lost, runs>>

(* The provider has granted the refresh and its answer is too late.         *)
AnswerLost(s) ==
    /\ Cardinality(lost) < MaxLost
    /\ \E x \in run[s].ask : /\ x.stage = "granted" /\ TimesOut(x)
                             /\ Expired(s)
                             /\ lost' = lost \cup {x.item.cred}
    /\ UNCHANGED <<vault, cred, provider, box, runs>>

(* evictIfCredentialsStale, then buildSpawnOptions, in one step.            *)
Stale(b) == b.newer # {}

Build(s) ==
    /\ run[s].pc = "refresh" /\ run[s].todo = {} /\ run[s].ask = {}
    /\ run' = [run EXCEPT ![s].pc = "acquire", ![s].env = Bearer]
    /\ box' = [box EXCEPT ![s] = {b \in @ : ~Stale(b)}]
    /\ UNCHANGED <<vault, cred, provider, lost, runs>>

(* Mutant: a container of the session is used whatever it was booted with.  *)
SameConfig_Any(b, env) == TRUE

(* The configuration signature covers the MCP servers and their headers.    *)
SameConfig(b, env) == b.env = env

Reuse(s) ==
    /\ run[s].pc = "acquire"
    /\ \E b \in box[s] : SameConfig(b, run[s].env)
    /\ run' = [run EXCEPT ![s].pc = "turn"]
    /\ UNCHANGED <<vault, cred, provider, box, lost, runs>>

(* A container of another configuration goes first.  The new entry's        *)
(* spawnedAt is the end of its boot: updates during the boot are older.     *)
Boot(s) ==
    /\ run[s].pc = "acquire"
    /\ \A b \in box[s] : ~SameConfig(b, run[s].env)
    /\ box' = [box EXCEPT ![s] = {[env |-> run[s].env, newer |-> {}]}]
    /\ run' = [run EXCEPT ![s].pc = "turn"]
    /\ UNCHANGED <<vault, cred, provider, lost, runs>>

(* The turn ends, or the container could not be acquired.                   *)
EndRun(s) ==
    /\ run[s].pc \in {"acquire", "turn"}
    /\ run' = [run EXCEPT ![s] = NoRun]
    /\ UNCHANGED <<vault, cred, provider, box, lost, runs>>

Reap(s) ==
    /\ run[s].pc = "idle" /\ box[s] # {}
    /\ box' = [box EXCEPT ![s] = {}]
    /\ UNCHANGED <<vault, cred, provider, run, lost, runs>>

VaultNext ==
    \/ AddCredential \/ Expire \/ DeleteCredential \/ DeleteVault
    \/ \E s \in Sessions :
          \/ StartRun(s) \/ Ask(s) \/ Refreshed(s) \/ RefreshFails(s) \/ AnswerLost(s)
          \/ ProviderGrants(s) \/ ProviderRefuses(s)
          \/ Build(s) \/ Reuse(s) \/ Boot(s) \/ EndRun(s) \/ Reap(s)

(* What the router does by itself: the provider may keep silent.            *)
RunStep(s) ==
    Ask(s) \/ Refreshed(s) \/ RefreshFails(s) \/ Build(s) \/ Reuse(s) \/ Boot(s) \/ EndRun(s)

----------------------------------------------------------------------------
(* Properties.                                                              *)

Asking(c) == \E s \in Sessions : \E x \in run[s].ask : x.item.cred = c

(* A turn is never dispatched to a container that carries a token older     *)
(* than the one stored when its run began, nor one whose credential was     *)
(* deleted before: evictIfCredentialsStale with its clock and the signature *)
(* of the options must catch every order of another session's refresh, this *)
(* session's boot and its next run.                                         *)
DispatchFresh ==
    \A s \in Sessions : run[s].pc = "turn" =>
        \A b \in box[s] : \A e \in b.env : e.rev >= run[s].floor[e.cred]

(* While no exchange is under way and no answer was lost, the stored        *)
(* refresh token is the one the provider takes: no order of concurrent      *)
(* refreshes leaves a credential that can never be refreshed again.         *)
StoredUsable ==
    \A c \in Present \ lost : ~Asking(c) => Row(c).refresh = provider[c]

(* However refreshes and runs interleave, what is stored and what is        *)
(* dispatched stays good.                                                   *)
VaultInv == VaultTypeOK /\ DispatchFresh /\ StoredUsable

(* Every run settles, whatever the token endpoint does.                     *)
VaultRunsSettle == \A s \in Sessions : []<>(run[s].pc = "idle")

(* router.ts, refreshExpiringOAuthCredentials: failures throw               *)
(* credential_expired "so the developer's app knows to re-run its OAuth     *)
(* flow": a run that fails on the provider's refusal leaves a stored token  *)
(* that the provider indeed no longer takes.                                *)
ExpiredMeansExpired ==
    [][\A s \in Sessions : \A x \in run[s].ask :
          x.stage = "refused" /\ run'[s].pc = "idle" /\ x.item.cred \in Present \ lost
          => Row(x.item.cred).refresh # provider[x.item.cred]]_vaultVars

(* router.ts, same comment: "Prevents pointless refresh of credentials that *)
(* aren't about to be used": the credential refreshed is the one that goes  *)
(* in the header.                                                           *)
RefreshOnlyUsed ==
    \A s \in Sessions : \A x \in run[s].ask :
        \A e \in Present : Prefix[e] <= Prefix[x.item.cred]
=============================================================================
