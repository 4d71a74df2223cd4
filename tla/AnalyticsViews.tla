--------------------------- MODULE AnalyticsViews ---------------------------
(***************************************************************************)
(* analytics_api.py: what each GET of the API computes from the tables.    *)
(* A view is an operator on a database.  A row is an event with the number *)
(* of its copy in the table, and a sum counts coins: each row owns the     *)
(* coins 1 .. amount, so that a row that is there twice counts twice.      *)
(* Formatting, paging and the order of a list are left out; every row is   *)
(* as recent as a view asks for.                                           *)
(***************************************************************************)
EXTENDS AnalyticsIndexer

RowsIn(d, events) == UNION {{e} \X DOMAIN d.rows[e] : e \in events}

\* COALESCE(SUM(amount), 0) of some rows.
SumOf(rows) == Cardinality(UNION {{row} \X (1 .. Ev(row[1]).amount) : row \in rows})

SumOver(d, events) == SumOf(RowsIn(d, events))

CountOver(d, events) == Cardinality(RowsIn(d, events))

By(type, provider) == {e \in Of({type}) : Ev(e).provider = provider}

OfShare(type, share) == {e \in Of({type}) : Ev(e).share = share}

WithStatus(d, s) == {id \in DOMAIN d.challenges : d.challenges[id].status = s}

Against(d, ep) == {id \in DOMAIN d.challenges : d.challenges[id].endpoint = ep}

EndpointsUnder(d, pid) == {ep \in DOMAIN d.endpoints : d.endpoints[ep].provider_id = pid}

LastBlock(d) == Later(d.sync_state.core, d.sync_state.per_provider)

Overview(d) ==
    [providers |-> Len(d.providers),
     endpoints |-> Cardinality(DOMAIN d.endpoints),
     total_staked |-> SumOver(d, Of({"Staked"})) - SumOver(d, Of({"Withdrawn"})),
     total_revenue |-> SumOver(d, Of({"Distributed"})),
     challenges |-> [s \in 0 .. 2 |-> Cardinality(WithStatus(d, s))],
     slashes |-> CountOver(d, Of({"Slashed"})),
     last_indexed_block |-> LastBlock(d)]

\* Revenue is joined by splitter, slashes by owner, challenges by endpoint.
ListProviders(d) ==
    {LET row == d.providers[i]
     IN  [id |-> row.id, owner |-> row.owner, share |-> row.share,
          endpoint_count |-> Cardinality(EndpointsUnder(d, row.id)),
          total_revenue |-> SumOver(d, OfShare("Distributed", row.share)),
          challenge_count |-> Cardinality(UNION {Against(d, ep) : ep \in EndpointsUnder(d, row.id)}),
          slash_count |-> CountOver(d, By("Slashed", row.owner))] : i \in DOMAIN d.providers}

\* Here revenue is joined by the provider_id written with each row.
RevenueOf(d, pid) ==
    SumOf({row \in RowsIn(d, Of({"Distributed"})) : d.rows[row[1]][row[2]] = pid})

GetProvider(d, pid) ==
    [rows |-> {d.providers[i].share : i \in {j \in DOMAIN d.providers : d.providers[j].id = pid}},
     endpoints |-> EndpointsUnder(d, pid),
     timeline |-> RevenueOf(d, pid)]

\* The status of the challenge opened last, NULL without one.
LastStatus(d, ep) ==
    IF Against(d, ep) = {} THEN NULL
    ELSE LET opened(id) == d.challenges[id].opened
             last == CHOOSE id \in Against(d, ep) :
                        \A other \in Against(d, ep) : opened(other) <= opened(id)
         IN  d.challenges[last].status

ListEndpoints(d, pid) ==
    {[endpoint |-> ep, owner |-> d.endpoints[ep].owner,
      challenge_count |-> Cardinality(Against(d, ep)), last_challenge_status |-> LastStatus(d, ep)] :
        ep \in EndpointsUnder(d, pid)}

GetEndpoint(d, ep) == [id \in Against(d, ep) |-> d.challenges[id].status]

\* A LEFT JOIN: a challenge of an endpoint that is not there has no provider.
ListChallenges(d, s) ==
    {[id |-> id,
      provider_id |-> LET ep == d.challenges[id].endpoint
                      IN  IF ep \in DOMAIN d.endpoints THEN d.endpoints[ep].provider_id ELSE NULL,
      resolution_time |-> IF d.challenges[id].resolved = NULL THEN NULL
                          ELSE d.challenges[id].resolved - d.challenges[id].opened] :
        id \in WithStatus(d, s)}

\* The stakers are those of the table stakes; a slash takes nothing off.
StakingSummary(d) ==
    [net_staked |-> SumOver(d, Of({"Staked"})) - SumOver(d, Of({"Withdrawn"})),
     total_slashed |-> SumOver(d, Of({"Slashed"})),
     stakers |-> {[address |-> a,
                   net |-> SumOver(d, By("Staked", a)) - SumOver(d, By("Withdrawn", a)),
                   slashed |-> SumOver(d, By("Slashed", a))] :
                     a \in {Ev(e).provider : e \in {f \in Of({"Staked"}) : d.rows[f] # <<>>}}}]

RevenueSummary(d) ==
    [total |-> SumOver(d, Of({"Distributed"})),
     by_provider |-> LET ids == {d.rows[row[1]][row[2]] : row \in RowsIn(d, Of({"Distributed"}))}
                     IN  [pid \in ids |-> RevenueOf(d, pid)]]

RsDetail(d, share) ==
    [providers |-> {d.providers[i].id : i \in {j \in DOMAIN d.providers : d.providers[j].share = share}},
     total_revenue |-> SumOver(d, OfShare("Distributed", share)),
     total_claimed |-> SumOver(d, OfShare("Claimed", share)),
     claim_count |-> CountOver(d, OfShare("Claimed", share))]

SyncStatus(d) == [contracts |-> d.sync_state, last_indexed_block |-> LastBlock(d)]

-----------------------------------------------------------------------------
(***************************************************************************)
(* The same answers, read off the chain up to block b.                     *)
(***************************************************************************)
Upto(type, b) == {e \in Of({type}) : e[1] <= b}

\* What one row for each of some events adds up to.
Coins(events) == SumOf(events \X {1})

\* Mined providers: deployment and registration of one transaction.
Deployments(b) ==
    {de \in Upto("ProviderDeployed", b) \X Upto("ProviderRegistered", b) : Ev(de[1]).tx = Ev(de[2]).tx}

Verdict(id, b) ==
    LET its == {e \in Upto("ChallengeResolved", b) : Ev(e).id = id}
    IN  IF its = {} THEN 0 ELSE Ev(CHOOSE e \in its : TRUE).result

ChainOverview(b) ==
    [providers |-> Cardinality(Deployments(b)),
     endpoints |-> Cardinality(Upto("EndpointRegistered", b)),
     total_staked |-> Coins(Upto("Staked", b)) - Coins(Upto("Withdrawn", b)),
     total_revenue |-> Coins(Upto("Distributed", b)),
     challenges |-> [s \in 0 .. 2 |->
        Cardinality({e \in Upto("ChallengeOpened", b) : Verdict(Ev(e).id, b) = s})],
     slashes |-> Cardinality(Upto("Slashed", b)),
     last_indexed_block |-> b]

\* endpointToProviderId: the registry keeps the provider an endpoint was
\* registered for; the event does not carry it.
ChainEndpoints(pid, b) ==
    {Ev(e).endpoint : e \in {f \in Upto("EndpointRegistered", b) : Ev(f).provider_id = pid}}

ChainChallenges(eps, b) == {Ev(e).id : e \in {f \in Upto("ChallengeOpened", b) : Ev(f).endpoint \in eps}}

ChainProviders(b) ==
    {LET id == Ev(de[2]).id
         share == Ev(de[1]).share
     IN  [id |-> id, owner |-> Ev(de[2]).owner, share |-> share,
          endpoint_count |-> Cardinality(ChainEndpoints(id, b)),
          total_revenue |-> Coins({e \in Upto("Distributed", b) : Ev(e).share = share}),
          challenge_count |-> Cardinality(ChainChallenges(ChainEndpoints(id, b), b)),
          slash_count |-> Cardinality({e \in Upto("Slashed", b) : Ev(e).provider = Ev(de[2]).owner})] :
        de \in Deployments(b)}

\* Registries number providers, challenges and endpoints once; a transaction's
\* events lie together; the factory registers what it deploys; shares earn
\* after their deployment only; an owner registers endpoints for a provider
\* of its own.
ASSUME ContractsAssumption ==
    /\ IsFiniteSet(EventIds)
    /\ \A e \in Appended : Ev(e).amount \in Nat
    /\ \A e, f \in Of({"ProviderRegistered"}) :
           Ev(e).id \in Nat \ {NULL} /\ (ChainOrder(e, f) <=> Ev(e).id < Ev(f).id)
    /\ \A e, f, g, h \in EventIds :
           /\ Ev(e).tx = Ev(g).tx /\ Ev(f).tx = Ev(h).tx /\ Ev(e).tx # Ev(f).tx
           /\ ChainOrder(e, f)
           => ChainOrder(g, h)
    /\ \A e, f \in Of({"ProviderDeployed"}) : Ev(e).share = Ev(f).share => e = f
    /\ \A e \in Of({"ProviderDeployed"}) :
           \E f \in Of({"ProviderRegistered"}) : Ev(f).tx = Ev(e).tx
    /\ \A e \in Of({"Distributed", "Claimed"}) :
           \E f \in Of({"ProviderDeployed"}) : Ev(f).share = Ev(e).share /\ f[1] <= e[1]
    /\ \A e, f \in Of({"EndpointRegistered"}) : Ev(e).endpoint = Ev(f).endpoint => e = f
    /\ \A e \in Of({"EndpointRegistered"}) :
           \E f \in Of({"ProviderRegistered"}) :
               /\ Ev(f).id = Ev(e).provider_id /\ Ev(f).owner = Ev(e).provider
               /\ ChainOrder(f, e)
    /\ \A e, f \in Of({"ChallengeOpened"}) : Ev(e).id = Ev(f).id => e = f

(***************************************************************************)
(* When no call failed and no two syncs ran at once, the tables filled     *)
(* step by step over several syncs answer every request like the chain up  *)
(* to the saved cursor: every payment once and but for those of providers  *)
(* without a row, and verdicts with their challenges.  If the history is   *)
(* Regular, providers too: with the endpoints the registry has under each, *)
(* and revenue alike by splitter and by id.                                *)
(***************************************************************************)
Settled == faults = 0 /\ overlaps = 0 /\ \A p \in Processes : ~Syncing(p)

Received(type, b) == Upto(type, b) \ missed

TotalsAgree(b) ==
    /\ Overview(db).total_staked = ChainOverview(b).total_staked
    /\ Overview(db).slashes = ChainOverview(b).slashes
    /\ StakingSummary(db).net_staked = Overview(db).total_staked
    /\ StakingSummary(db).total_slashed = Coins(Upto("Slashed", b))
    /\ {staker.address : staker \in StakingSummary(db).stakers} =
           {Ev(e).provider : e \in Upto("Staked", b)}
    /\ \A staker \in StakingSummary(db).stakers :
          LET a == staker.address
          IN  /\ staker.net = Coins(By("Staked", a) \cap Upto("Staked", b))
                                - Coins(By("Withdrawn", a) \cap Upto("Withdrawn", b))
              /\ staker.slashed = Coins(By("Slashed", a) \cap Upto("Slashed", b))
    /\ RevenueSummary(db).total = Coins(Received("Distributed", b))
    /\ \A e \in Of({"Distributed", "Claimed"}) :
          LET detail == RsDetail(db, Ev(e).share)
              claims == OfShare("Claimed", Ev(e).share) \cap Received("Claimed", b)
          IN  /\ detail.total_revenue =
                     Coins(OfShare("Distributed", Ev(e).share) \cap Received("Distributed", b))
              /\ detail.total_claimed = Coins(claims)
              /\ detail.claim_count = Cardinality(claims)
    /\ \A e \in missed : \E f \in WithoutRow : /\ Ev(f).type = "ProviderDeployed"
                                               /\ Ev(f).share = Ev(e).share

ChallengesAgree(b) ==
    /\ Overview(db).challenges = ChainOverview(b).challenges
    /\ \A ep \in {Ev(e).endpoint : e \in Upto("ChallengeOpened", b)} :
          GetEndpoint(db, ep) = [id \in ChainChallenges({ep}, b) |-> Verdict(id, b)]
    /\ \A s \in 0 .. 2 : {ch.id : ch \in ListChallenges(db, s)} =
          {Ev(e).id : e \in {f \in Upto("ChallengeOpened", b) : Verdict(Ev(f).id, b) = s}}
    /\ SyncStatus(db).last_indexed_block = b

ProvidersAgree(b) ==
    /\ Overview(db) = ChainOverview(b)
    /\ ListProviders(db) = ChainProviders(b)
    /\ \A de \in Deployments(b) :
          LET id == Ev(de[2]).id
              its == OfShare("Distributed", Ev(de[1]).share) \cap Upto("Distributed", b)
          IN  /\ GetProvider(db, id) = [rows |-> {Ev(de[1]).share}, timeline |-> Coins(its),
                                        endpoints |-> ChainEndpoints(id, b)]
              /\ RsDetail(db, Ev(de[1]).share).providers = {id}
              /\ its # {} => RevenueSummary(db).by_provider[id] = Coins(its)
              /\ \A ep \in ListEndpoints(db, id) :
                    ep.challenge_count = Cardinality(ChainChallenges({ep.endpoint}, b))

\* Each deployment in a transaction of its own, and the endpoints of an owner
\* with a provider in the tables all registered for the first of those: the
\* indexer has only the owner to find the provider of an endpoint by.
Regular ==
    /\ \A e \in Of({"ProviderDeployed"}) : e \notin WithoutRow
    /\ \A ep \in Of({"EndpointRegistered"}), e \in Of({"ProviderRegistered"}) \ WithoutRow :
           Ev(e).owner = Ev(ep).provider =>
               /\ Ev(ep).provider_id <= Ev(e).id
               /\ \E f \in Of({"ProviderRegistered"}) \ WithoutRow : Ev(f).id = Ev(ep).provider_id

ViewsAgree ==
    Settled => /\ TotalsAgree(file.core)
               /\ ChallengesAgree(file.core)
               /\ Regular => ProvidersAgree(file.core)
=============================================================================
