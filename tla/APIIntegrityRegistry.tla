------------------------ MODULE APIIntegrityRegistry ------------------------
(***************************************************************************)
(* APIIntegrityRegistry.sol: providers, their endpoints and the integrity  *)
(* hash of each endpoint.  It reads the bonds of the StakeManager when a   *)
(* provider registers, and the StakeManager reads its minimum.             *)
(*                                                                         *)
(* A resource stands for a (path, method) pair and an endpoint id, the     *)
(* hash of (providerId, path, method), for the pair of provider id and     *)
(* resource.  The integrity hash of payment metadata is the metadata: what *)
(* the five hashed fields say is a member of Terms (amount, asset, network *)
(* and url) and the payTo address.  No function clears `active' of a       *)
(* provider or an endpoint or pauses the contract: registered is active.   *)
(***************************************************************************)
EXTENDS StakeManager, Sequences

CONSTANTS
    Resources,          \* (path, method) pairs
    Terms,              \* amount, asset, network and url of the metadata
    Splitters,          \* addresses given as revenueSplitter
    MaxProviders,       \* bound on providerCount
    MaxVersion          \* bound on an endpoint's version

ASSUME RegistryAssumption ==
    /\ MaxProviders \in Nat
    /\ MaxVersion \in Nat \ {0}

VARIABLES
    providers,          \* sequence of [owner, revenueSplitter]
    endpoints,          \* function from the ids registered so far to their records
    stakeManagerSet     \* setStakeManager was given a non-zero address

registryVars == <<providers, endpoints, stakeManagerSet>>

ProviderIds == 1 .. Len(providers)

EndpointIds == (1 .. MaxProviders) \X Resources

Hash(terms, payTo) == [terms |-> terms, payTo |-> payTo]

Hashes == [terms : Terms, payTo : Splitters]

-----------------------------------------------------------------------------
\* DeployAll wires the StakeManager in before anyone can register.
RegistryInit ==
    /\ providers = <<>>
    /\ endpoints = << >>
    /\ stakeManagerSet = TRUE

(***************************************************************************)
(* registerProvider(owner, .., revenueSplitter), by any caller for any     *)
(* owner.  The bond is looked at here and nowhere else.                    *)
(***************************************************************************)
RegisterProvider(owner, splitter) ==
    /\ Len(providers) < MaxProviders
    /\ (stakeManagerSet /\ minimumStakeRequired > 0)
           => stakes[owner].amount >= minimumStakeRequired
    /\ providers' = Append(providers, [owner |-> owner, revenueSplitter |-> splitter])
    /\ UNCHANGED <<endpoints, stakeManagerSet>>

\* updateProvider: endpoints keep the hash they have.
UpdateProvider(u, id, splitter) ==
    /\ id \in ProviderIds
    /\ providers[id].owner = u
    /\ providers' = [providers EXCEPT ![id].revenueSplitter = splitter]
    /\ UNCHANGED <<endpoints, stakeManagerSet>>

\* payTo is the splitter, spelled out or left at address(0).
PayToAccepted(id, payTo) == payTo \in {NoAddress, providers[id].revenueSplitter}

RegisterEndpoint(u, id, r, payTo, terms) ==
    /\ id \in ProviderIds
    /\ providers[id].owner = u
    /\ PayToAccepted(id, payTo)
    /\ <<id, r>> \notin DOMAIN endpoints
    /\ LET e == [provider |-> u,
                 integrityHash |-> Hash(terms, providers[id].revenueSplitter),
                 version |-> 1,
                 lastCheckedAt |-> now]
       IN  endpoints' = [x \in DOMAIN endpoints \cup {<<id, r>>} |->
                            IF x = <<id, r>> THEN e ELSE endpoints[x]]
    /\ UNCHANGED <<providers, stakeManagerSet>>

UpdateEndpoint(u, id, r, payTo, terms) ==
    /\ <<id, r>> \in DOMAIN endpoints
    /\ endpoints[<<id, r>>].version < MaxVersion
    /\ endpoints[<<id, r>>].provider = u
    /\ PayToAccepted(id, payTo)
    /\ endpoints' = [endpoints EXCEPT
           ![<<id, r>>].integrityHash = Hash(terms, providers[id].revenueSplitter),
           ![<<id, r>>].version = @ + 1]
    /\ UNCHANGED <<providers, stakeManagerSet>>

\* recordCheck, called by the holder of CHECKER_ROLE: the ChallengeManager.
Checked(eid) == [endpoints EXCEPT ![eid].lastCheckedAt = now]

SetStakeManager(set) ==
    /\ stakeManagerSet' = set
    /\ UNCHANGED <<providers, endpoints>>

-----------------------------------------------------------------------------
RegistryTypeOK ==
    /\ providers \in Seq([owner : Users, revenueSplitter : Splitters])
    /\ Len(providers) <= MaxProviders
    /\ DOMAIN endpoints \subseteq ProviderIds \X Resources
    /\ \A eid \in DOMAIN endpoints :
           endpoints[eid] \in [provider : Users, integrityHash : Hashes,
                               version : Nat \ {0}, lastCheckedAt : Nat]
    /\ stakeManagerSet \in BOOLEAN
=============================================================================
