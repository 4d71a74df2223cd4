------------------------- MODULE MCAnalyticsIndexer -------------------------
(***************************************************************************)
(* The indexer over a short legal history: three providers, two of one     *)
(* owner who also holds the shares of the other one's, an endpoint, a      *)
(* challenge and its verdict, staking, distributions and a claim.          *)
(***************************************************************************)
EXTENDS AnalyticsViews, SequencesExt

Deploy(tx, id, owner, recipient, share) ==
    <<[type |-> "ProviderRegistered", tx |-> tx, id |-> id, owner |-> owner],
      [type |-> "ProviderDeployed", tx |-> tx, recipient |-> recipient, share |-> share]>>

Register(tx, endpoint, provider, id) ==
    <<[type |-> "EndpointRegistered", tx |-> tx, endpoint |-> endpoint, provider |-> provider,
       provider_id |-> id]>>

Update(tx, endpoint) == <<[type |-> "EndpointUpdated", tx |-> tx, endpoint |-> endpoint]>>

Staking(type, tx, provider, amount) ==
    <<[type |-> type, tx |-> tx, provider |-> provider, amount |-> amount]>>

Opened(tx, id, endpoint) ==
    <<[type |-> "ChallengeOpened", tx |-> tx, id |-> id, endpoint |-> endpoint]>>

Resolved(tx, id, result) ==
    <<[type |-> "ChallengeResolved", tx |-> tx, id |-> id, result |-> result]>>

Paid(type, tx, share, amount) ==
    <<[type |-> type, tx |-> tx, share |-> share, amount |-> amount]>>

\* Legal: bonds before providers, an endpoint of a registered provider, a
\* challenge of a registered endpoint, a verdict after its challenge.
Block1 ==
    Staking("Staked", 1, "bob", 5) \o Deploy(2, 1, "alice", "bob", "rs1")
        \o Deploy(3, 2, "bob", "bob", "rs2") \o Register(4, "e", "bob", 2)
        \o Paid("Distributed", 5, "rs1", 4) \o Opened(6, 1, "e")

Block2 ==
    Update(7, "e") \o Resolved(8, 1, 2) \o Staking("Slashed", 8, "bob", 2)
        \o Deploy(13, 3, "bob", "alice", "rs3")
        \o Paid("Distributed", 9, "rs2", 2) \o Paid("Claimed", 10, "rs1", 3)
        \o Staking("UnstakeRequested", 11, "bob", 0) \o Staking("Withdrawn", 12, "bob", 1)

MCHistory == <<Block1, Block2>>

MCLogs ==
    [step \in CoreSteps |-> FlattenSeq([n \in DOMAIN Fetches[step] |->
        SetToSortSeq(Of({Fetches[step][n]}), ChainOrder)])]
=============================================================================
