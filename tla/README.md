# Verification of the Composed protocol

TLA+ models of the contracts, the oracle workflow, the off-chain watchers, the
analytics indexer and the provider's tools of this repository, TLC runs that
check them on small instances, and TLAPS proofs for all instances. Paths below
are relative to the repository root; contract files are in `contracts/src/`.

## The system

API providers bond USDC, register the payment terms of their endpoints on chain
and collect x402 payments in a splitter contract; holders of the provider's
revenue share are paid out of it. Anyone may challenge an endpoint; a Chainlink
CRE workflow asks the endpoint's server what it charges and reports whether
that matches; a mismatch costs the provider part of its bond. On top, a provider
may sell part of its revenue share in an offering, and holders may wrap theirs,
sell its future revenue in notes or borrow against what it earns.

| Component | State | Operations | Talks to |
|---|---|---|---|
| `StakeManager.sol` | bond and unlock time per user, cooldown, protocol cut, treasury | stake, requestUnstake, withdraw, slash, setters | USDC; reads the registry's minimum; slashed by ChallengeManager |
| `APIIntegrityRegistry.sol` | providers, endpoints with integrity hash and version, minimum stake | registerProvider/Endpoint, updateProvider/Endpoint, recordCheck, setters | reads StakeManager's bonds |
| `ChallengeManager.sol` | challenges, fee, slash share, forwarder | openChallenge, onReport, setters | USDC, StakeManager.slash, registry.recordCheck, event to the workflow |
| `cre/integrity-workflow/main.ts` | none | one run per ChallengeOpened event | server of the endpoint; report to onReport |
| `cre_watcher/cre_watcher.py` | JSON file: last block, processed ids | poll, simulate, save | chain, `cre workflow simulate` |
| `challenger_watcher/challenger_watcher.py` | JSON file: scanned block, endpoints, check times, pending challenges | discover, check, challenge, resolve | chain, servers |
| `ProviderRevenueShare.sol` | shares, accumulator, checkpoints, pending claims, snapshot ring | genesisMint, distribute, claim, transfer, takeSnapshot | USDC |
| `ProviderRevenueSplitter.sol` | treasuries, provider admin | distribute, setters | USDC, ProviderRevenueShare.distribute in try/catch |
| `APIRegistryFactory.sol` | list of deployments | deployProvider | deploys share and splitter, registers the provider |
| `l2/InitialAPIOffering.sol` | phase, amount raised, offering tokens | contribute, finalize, cancel, refund, claimRS, transfer | USDC, revenue share |
| `l2/WrappedRevenueShare.sol` | wRS, withdraw fee, treasury | deposit, redeem, harvest, harvestAndRedeem, transfer, setters | USDC, revenue share |
| `analytics/src/analytics_indexer.py`, `analytics_api.py` | SQLite tables, JSON file with two cursors | sync as a daemon or once, GET views, POST /sync | chain |
| `sdk/composed`, `cli/composed_cli`, `contracts/scripts` | none of their own; nonces, allowances, the mempool | stake, deploy, unstake, withdraw, register, update, challenge | all contracts, servers |
| `l2/APIRevenueFuture.sol` | notes with locked shares, accumulator of credited dividends | create, purchase, settle, reclaim, harvest | USDC, revenue share |
| `l2/APIUSD.sol` | positions of shares and debt, accumulator, APIUSD | open, add, remove, mint, repay, close, liquidate, transfer, pause, setters, rescue | USDC, revenue share |
| `l2/yAPIUSD.sol`, `wcAPIUSD`, `RevShareStable`, `APIRevenueStable`, `APIYieldIndex`, `RebasingRevenueShare` | vault shares, baskets | deposit, borrow, redeem, liquidate, harvest | revenue share, each other |
| servers, frontend, dashboard | none | serve, display | all of the above |

What is hard in it:

* **Interleaving of transactions with the outside.** A challenge lives for
  minutes. Meanwhile the provider may update its endpoint or splitter, withdraw
  its bond, the owner may change fee, slash share or forwarder, and the server
  may change its answer. The workflow may run twice and disagree with itself.
* **Check, then act.** Tools and watchers read the chain in one call, decide, and
  send a transaction later, under a key that other sessions use too.
* **Rounding.** Slashing, splitting, dividends, exchange of offering tokens and
  redemption all divide; debts must stay below holdings whatever is lost.
* **Crashes and time-outs.** Watchers and indexer rewrite a JSON file between
  network calls; a receipt that does not come in time may still come.
* **Swallowed failures.** A failed `get_logs` or simulate is printed and passed
  over; a failed notification of the revenue share is caught.

## Modules

| Module | Models | Correspondence |
|---|---|---|
| `USDC` | the token as the contracts use it | a ledger is a function from accounts to amounts; `Moved` and `CanMove` are a transfer and its checks; `Total` sums a function by counting coins, without recursion |
| `StakeManager` | StakeManager.sol | one action per function; `slash` is split into operators (`SlashAmount`, `SlashPaid`, ...) because onReport runs it inside its own transaction |
| `APIIntegrityRegistry` | APIIntegrityRegistry.sol | extends StakeManager; hashes are records of terms and payTo (keccak is taken as injective); endpoint ids are pairs of provider id and resource |
| `ChallengeManager` | ChallengeManager.sol | `OnReport` changes challenges, ledger, bonds and endpoint in one step; `opened` is the payload of each event |
| `IntegrityWorkflow` | main.ts | `served` is what each server answers, `Verify` a run that ends in a signed report, in `reports` for good |
| `ChallengeEscrow` | abstract specification | what Layer 0 promises whoever pays in: a challenge is a case decided once, a bond is taken for a conviction only and never beyond what is bonded, whoever is paid |
| `WorkflowRuns` | the runs of main.ts the log trigger starts, over `Enforcement` | `run` is how far the one run of each challenge is; it fetches once, writes once, and throws on a silent server, a refused or a lost report |
| `Enforcement` | Layer 0 as `DeployAll.s.sol` wires it | the composition; history variable `clean`; `Cases` and `Escrow` are the refinement mapping |
| `ProviderRevenueShare` | ProviderRevenueShare.sol | operators evaluated after a transfer take the ledger as parameter |
| `DividendPool` | abstract specification | what a revenue share promises: coins arrive, debts grow but never beyond the pool, a debt vanishes only when paid in full |
| `ProviderRevenueSplitter` | ProviderRevenueSplitter.sol over a revenue share | `NotifyRevenueShare` is the try/catch: it may fail in any state |
| `InitialAPIOffering` | l2/InitialAPIOffering.sol over a revenue share | one action per function; `ClaimRS` settles both sides like any transfer of shares |
| `WrappedRevenueShare` | l2/WrappedRevenueShare.sol over a revenue share | `Burn` is common to both redemptions; `HarvestAndRedeem` is claim and redemption in one transaction, the redeemer settled at the accumulator just raised |
| `RevenueHarvest` | a contract that claims for the shares it holds | the amount read, the amount paid and the move of shares in one transaction, for the two modules below |
| `APIRevenueFuture` | l2/APIRevenueFuture.sol over a revenue share | one action per function; `notes` are those on the revenue share modelled beside it, `others` those on any other contract, which says and pays what it likes; both are paid out of one balance |
| `APIUSD` | l2/APIUSD.sol over a revenue share | one action per function; histories `rescued`, `bookings` |
| `ShareFinance` | one of the two over a revenue share | the composition; `product` is which of them |
| `ShareMarket` | one revenue share with an offering and a wrapper | the composition; the contracts are holders of shares but nobody's account |
| `CREWatcher` | cre_watcher.py | `pc` names the point the loop is at; memory is lost in `Crash`, `file` is not; a save is two steps, a torn file and the new one |
| `ChallengerWatcher` | challenger_watcher.py | as above; registry, servers, workflow and other users of the key are the surroundings; the registry's hash and the watcher's are of different forms and never equal; endpoints are visited in the order of their registration, each once per cycle |
| `AnalyticsIndexer` | analytics_indexer.py, POST /sync of analytics_api.py | processes over one database: `db` is committed, `view` what the writer sees, `writer` who holds SQLite's write lock; six steps per sync, each commits; an exception leaves the transaction open, a kill drops it. `History` is what the chain will contain, `Logs` the order in which each step has its events, `Processed` the loop over them as a recursive function |
| `AnalyticsViews` | the GET requests of analytics_api.py | one operator per query, on the tables, and what the chain itself would answer; a row is an event with the number of its copy, and a sum counts coins, so that a payment written twice counts twice |
| `ProviderTools` | staking, deployment, unstaking, withdrawal, splitter search of CLI, SDK and scripts | a session is a `pc` between two network calls; transactions wait in `mempool` until their nonce is next |
| `EndpointOnboarding` | registration, update, challenge with SDK, CLI and script | fetching, reading, sending, mining and waiting are separate steps; a transaction given up waits in `pool`. An answer is a record of the payment data, the names and the shape it comes in and the methods it is given for; the verdict the workflow would give is computed from the live answer |
| `MC...` | instances | constants for TLC |
| `..._proofs` | theorems | see *Proofs* |

Every transaction is one action, since the EVM runs it alone and reverts it
whole: an action's guard is the conjunction of the `require`s, role checks and
checked subtractions on its path. Calls to other contracts are part of the
caller's action. `nonReentrant` is therefore not modelled as state. The
off-chain programs are modelled at the grain of their external calls, commits and
saves.

Not in the models: strings, event logging, overflow of `uint256` (no USDC
amount comes near it), allowances between contracts and their users (assumed
given, except in the tools, which manage them), chain reorganisations, gas
except where it lets a call fail. `rescueERC20` moves foreign tokens
only. `active` and `paused` are never changed by any function of the registry.
The empty path that `openChallenge` refuses is left out of `Resources`. keccak
is taken as injective; which copies of the integrity hash agree with the
contract's is modelled as it is (main.ts does, the challenger watcher's does not).

## Runs

TLC must pass these. Names are those of `PROJECT.json`; state counts are
distinct states. Type invariants, `EndpointsOwned`,
`SnapshotsOrdered` and `VerdictFinal` are proved and not run again; the indexer, the tools and the
modules of Layer 2 state none beyond what their properties need.

| Run | States | Checks | Shows |
|---|---|---|---|
| enforcement | 528,200 | `BondsBacked`, `FeesEscrowed`, `HonestNotFaulted`, `BondLostOnlyByFault` | the enforcement promises with two challenges, contradicting and repeated reports, splitter rotation, endpoint updates, withdrawal, partial and full slashes |
| enforcement_live | @LIVE@ | `SettledOrExcused`, `ImplementsEscrow` | admins change every parameter at any moment; every challenge is settled by its one run, unless the run throws: the server silent when it is asked, the report lost, or at the moment of the report the bond gone or a setting against it; refinement of `ChallengeEscrow` |
| splitter | 214,464 | `ProtocolShareBounded`, `Solvent`, `FindsLatest`, `RevenueReachesHolders`, `TransferKeepsEarnings`, `ImplementsPool` | splitter and revenue share: rounding loss per distribution is below a coin, no revenue is left behind although notifications fail, dividends never owe more than there is; refinement of `DividendPool`; the ring across wraps |
| market | 489,653 | `OfferingCovered`, `WrapperBacked`, `OnlyDepositsDilute`, `BackersSettled` | refunds and exchanges of an offering are covered at every moment, redeemers of the wrapper take nothing from those who stay, backers get RS or their USDC back |
| finance | 1,072,004 | `NotesCovered`, `EarningsBacked`, `DebtWithinLTV`, `EarningsKept` | what notes and positions are credited is there but for rounding and what notes on other contracts were paid, debts stay within the ratio, shares that come or go take nothing of what others have earned |
| cre_watcher | 104,928 | `ProcessedSettled`, `SkippedOnlyByFailure`, `SettledUnlessFailed` | nothing is recorded settled that is not; nothing is passed over but failures, across two crashes |
| challenger | 149,880 | `PendingBounded`, `ScannedAreKnown`, `MismatchChallenged` | one challenge pending per endpoint and one more at most per crash, no scanned endpoint is forgotten, every persisting mismatch is challenged |
| indexer | 191,494 | `DuplicatesHaveCause`, `SyncedOrMissed`, `EndpointsAttributed`, `ViewsAgree`, `VerdictStays`, `EventuallyIndexed` | rows are doubled, missed or misplaced only for a failed call, a kill or two syncs at once; without those the API answers like the chain, but for the payments of providers without a row and, about providers, in a `Regular` history |
| tools | 412,752 | `OverstakeHasCause`, `UnreportedHasCause`, `AutoDetectHasCause`, `PendingMined` | what two sessions of one key, retries and time-outs can do to bond, deployments and nonces |
| onboarding | 1,866,432 | `RegisteredPasses`, `SplitterAsNamed`, `ChargedAsRead` | what is registered from answers tool and workflow read alike passes the check; updates that were not under way at once do not undo one another; a challenge costs no more than was read |

TLC must refute these: each is what a comment says, and the code does
otherwise.

| Run | Claim | What the code does |
|---|---|---|
| skipped | `cre_watcher/cre_watcher.py:8-9`, `179`: failed simulates are retried | never retried |
| restart | `challenger_watcher/challenger_watcher.py:12`, `14`: safe to restart | forgets a challenge mined just before the crash |

### Bounds and why they suffice

* Basis points and `SCALE` are out of 4 (2 in `market`), so that amounts of 1 to
  6 round in every division; with 10000 no small instance would round at all.
* Two users or holders and a treasury: the properties relate at most two
  accounts. In `splitter` the second holder is the contract itself, to which
  shares may be sent and dividends be claimed.
* Two challenges (`MaxChallenges`): enough for one to be paid out of the
  other's fee, and for reports to arrive out of order. `reports` never shrinks, so
  every duplicate is possible without a bound.
* `MaxProviders` 1, `MaxVersion` 2: one update while a challenge is pending.
  `enforcement_live` has one challenge and no update; what it adds are the run of the
  workflow and the settings, which are independent of both (all but `setStakeManager`,
  which only registrations look at: `enforcement` has it). `ImplementsEscrow` is checked there, where the
  settings change too; two challenges at once, for which it was proved, only make the
  check slow.
* `SlashBps` of 2 and 4 out of 4 in `enforcement`: a bond of 2 survives one
  slash or none, and the cut is a coin or rounds to nothing.
* `MaxTime` bounds the clock: 1 tick lets a cooldown of 1 pass; 3 in
  `splitter` let a ring of two snapshots with interval 1 wrap; 3 in `market` pass the
  deadline of 2.
* `MaxClaimed` bounds `totalClaimed`, which claims addressed to the contract
  itself would let grow for ever.
* `market`: one backer beside the provider, a goal of 3 tokens at 1 coin for 2 RS,
  so that one token buys nothing and two buy one; provider and backer
  both wrap. The backer is also the source of revenue. Snapshots never
  come due there: they are the matter of `splitter`.
* `finance`: 5 shares, payments of 3 coins. Two notes (`MaxNotes`) of terms 1 and 2
  and 2 or 3 locked shares on a clock of 3: one may be created after the other is closed,
  or both run at once; they fall short, or earn what was promised or more. Either may be on
  another contract, which says that 2 coins were earned and pays 1 at most (`MaxBrought`). Or three
  deposits or removals of 1 to 3 shares (`MaxBookings`) and `PRECISION` 2, the least found
  at which the slack of `bookings` in `EarningsBacked` is used; two APIUSD at most, a
  ratio of 7 and 8 in 10, so that a debt of 1 can become liquidatable by rounding. The
  snapshots, the only thing that depends on time in APIUSD, never come due here,
  and its clock stands still.
* Watchers: chains of 3 blocks in chunks of 2, so that events fall
  inside, at the border of and after a scan; two crashes of the CRE watcher, so
  that a restart may itself be cut short, and one of the challenger watcher,
  whose account starts with two fees, and two terms an endpoint may be registered or served
  with; `MaxRefunded` bounds the challenges the
  surroundings pay for. TLC has one endpoint in `challenger`; its two safety
  properties are proved for any number. That an endpoint late in the list waits for
  those before it is not shown.
* `indexer`: a fixed legal history of two blocks in which every event type
  occurs, with three providers of which two have one owner, read block by block
  (`CHUNK` 1), a daemon and one request for a second
  process, one failed call, exception or kill. One fault at every point of two
  overlapping syncs is what each of the `...HaveCause` counts needs. No transaction deploys
  two providers and none registers without the factory: the proofs cover those.
* `tools`: two sessions with one key, two commands, two cuts, two moves of
  minimum, bond or clock; one provider deployed before, and up to two more.
* `onboarding`: a session of each tool, two commands, one change of the
  server's answer or of the fee, one cut: a change between any two calls of a command, a
  command left behind with its transaction in the pool and another after it. Answers are the plain one and
  those that differ in the splitter named, a zero payTo, the `resource.url` and methods, the
  names of fields or the accepts list; flags give nothing, the amount, or all. GET and POST.
* Deadlock is not checked in `indexer`, `tools` and `onboarding`, nor in `finance`: they come to rest when commands, requests, history, coins or the
  clock are used up.

### Fairness

* `RunsFairness`: the log trigger starts one run for each event, and a run comes to its end, since the
  handler (`main.ts:81-272`) has neither loops nor waits of its own. Each of its steps is taken
  once; none is repeated until it works. A lost report is possible, but not assumed. Nothing is
  assumed of users, admins, servers or the watcher's simulate.
* `SplitterFairness`: both `distribute` functions keep being called:
  they are open to anyone, and `scripts/revenue_splitter_trigger.py` calls the
  splitter's on a schedule.
* `MarketFairness`: `finalize` and `cancel` are open to anyone and backers gain from
  them; a backer takes its refund or its RS; time passes.
* `WatcherFairness`, `ChallengerFairness`: the loop runs while the process
  lives, somebody starts it again, cooldowns end, and a server is fetched
  from successfully again and again unless the watcher has no fee (strong fairness of
  `FindMismatch`; without it every fetch might fail and nothing could be promised). `LuckyWatcherSpec` adds strong
  fairness of a successful simulate, the assumption of the comment it is
  used to examine.
* `IndexerFairness`: some process that can go on does, or somebody starts the
  daemon. Not each process: one that holds the database lock may starve another.
* `FairToolsSpec`: a transaction that can be mined is, some day. Nothing is assumed
  of sessions.

## Proofs

Eight modules hold the theorems: `Enforcement_proofs` those of the StakeManager, of onboarding
and of the CRE watcher too, `ShareMarket_proofs` that of the splitter. The assumptions on constants are those named in
the modules they extend (`AccountsAssumption`, `ShareAssumption`, ...). Theorems
over a revenue share have the hypothesis `RevenueShareAddr \in Accounts`:
the splitter module also allows a splitter without a share.

**Ledger** (`USDC_proofs`). `TotalSplit` takes one account out of a sum,
`TotalUpdate` gives the sum after one entry changes, `TotalMonotone`, `TotalGrowth` and
`TotalScaled` compare sums entry by entry, `MovedType` and `MovedTotal` say what a
transfer keeps, from and to the same account included. A sum is the number of
coins, so these are theorems about cardinality; no induction over data is needed.

**Bonds** (`Enforcement_proofs`). `StakesAreBacked == StakeSpec => []BondsBacked`. The
inductive invariant is `StakeTypeOK /\ BondsBacked`: type correctness gives
natural amounts, without which `TotalUpdate` does not apply. One step per action:
stake and withdraw move the sum and the balance together, slash lowers the sum by
`SlashAmount` and the balance by at most that much, since payee and treasury
may be the contract itself.

**Enforcement** (`Enforcement_proofs`), for any users, endpoints, answers, fees
and basis points:

* `EnforcementTypeCorrect`, with one lemma
  per contract and the lemmas `ChallengesKept`,
  `OpenEffect` and `ReportEffect`, which say what each action does to the list
  of challenges and are all that the later proofs use of it.
* `EnforcementBondsAreBacked`: `BondsBacked` with slashes that come from
  settled challenges. It reuses the steps proved for the StakeManager alone.
* `OwnersStayInStep`: `[]EndpointsOwned`, inductive with the types.
* `VerdictsAreFinal` and `BondsAreLostByFault`, two action properties. The second
  needs `EndpointsOwned`: the code slashes the provider recorded with the
  endpoint, the property speaks of the owner of the provider record, and only the
  invariant says they are the same account.
* `HonestServersNotFaulted`: `[]HonestNotFaulted`. The property is not inductive:
  a report of fault may be signed in one step and delivered much later. `HonestInv`
  adds that while a server is clean the answer it gives now passes the
  verification, and no report of fault on the challenge has been signed.
* `FeesStayEscrowed`: `[]FeesEscrowed` under `ChallengeFees = {fee}`. Without this
  hypothesis it is false, because the payout uses the fee of the day and not the one
  paid (`ChallengeManager.sol:175`). The proof counts: every settlement takes one pending
  id out of a finite set and at most one fee out of the contract.
* `EnforcementImplementsEscrow`: `Enforcement` implements `ChallengeEscrow`. A challenge
  maps to a case (`Cases`) whose accused is the provider recorded with the endpoint, a provider's stake to its bond, and `clean` turned around to what has been
  seen against it. The initial states map; each action maps to one of the abstract actions or, for
  setters, registrations and reports signed, to a stutter. `EscrowInv` joins the types,
  `HonestInv`, without which a delivered report of fault could convict where nothing was ever
  wrong, and that the treasury is one of `Treasuries`. When the cut is 0 the code pays no
  treasury and the abstract step may name any.

**Revenue share** (`ProviderRevenueShare_proofs`), for any holders, supply, scale,
amounts, ring size and interval:

* `EarningsAreCovered`: `[]Solvent`. It is not inductive: a claim is a
  rounded quotient, and the part that the division drops counts again when the
  shares move. `ShareInv` bounds the weights instead, `SCALE` times what is pending
  plus accumulator difference times shares, before any division: their sum
  is at most `SCALE` times what was distributed and not claimed. A distribution
  raises it by at most what arrived (`DistributionCovered`), a settlement rounds a
  weight down, a claim takes one out (`PaidOutStep`). `ClaimsCovered` divides at
  the end.
* `EarningsStayPut`: `TransferKeepsEarnings`, of every step that neither distributes nor
  pays a claim. After a settlement the accumulator difference is 0 for both sides, whatever
  moved; a transfer to oneself settles one account, and once.
* `SharesImplementPool`: the contract implements `DividendPool`. Each action maps to
  `Arrive`, `Credit`, `PayOut` or a stutter, a claim addressed to the
  contract itself included.
* `RingIsOrdered`, `SearchFindsLatest`: the snapshot ring. `RingInv` speaks of the
  walk and not of the indices; `WalkShifts` says that advancing the ring shifts the
  walk by one and drops its last entry, so that order is kept entry by entry.

**Splitter** (`ShareMarket_proofs`). `ProtocolEarnsItsShare`:
`ProtocolShareBounded`, from the floor of each cut and the sum of all (`CutsFit` keeps
the remainder natural). `SplitterKeepsSharesSolvent`: `Solvent` with coins that arrive
through the splitter, notified or not. `FedSharesImplementPool`, `FedEarningsStayPut` and
`FedSearchFindsLatest` are the other properties of the `splitter` run for the composition it
checks: `FedInv` joins `SplitterInv`, `ShareInv` and `RingInv`, and a step of the splitter
is for the pool a `Credit` of the coins just sent when the notification gets through and an `Arrive`
when it fails, so that the lemmas on steps of the share alone are used again.

**Market** (`ShareMarket_proofs`), for any prices, goals, allocations, fees:

* `OfferingIsCovered`, `WrapperIsBacked`, `RedeemersTakeTheirOwn`. `MarketInv` joins
  `ShareInv` with `WithinGoal` (no more tokens than the allocation is for, needed
  when `Finalize` switches what covers them) and the two properties.
  `PayoutKeepsRate` is the arithmetic: whoever is paid the floor of its proportion
  leaves the others at least theirs. `SharesElsewhere` and
  `CoinsElsewhere` say that nothing else in the revenue share takes shares or coins
  from a contract.
* `MarketKeepsSharesSolvent`: `Solvent` where contracts hold shares; the hard step is
  `HarvestAndRedeemStep`, which distributes, pays one holder and moves shares to
  another in one transaction.

**Watchers** (`Enforcement_proofs`, `ChallengerWatcher_proofs`), for any chain, chunk
size and number of crashes, endpoints and terms:

* `RecordedChallengesAreSettled` and `NothingElseIsSkipped`. Both are about memory and
  file alike, since a crash makes one the other; `ScanInv` says how far the
  current chunk has come. The second has the hypothesis that `--from-block` never
  starts beyond the deployment block (`Overrides \subseteq 0 .. DeployBlock`).
* `NoEndpointForgotten` (`DiscoveryInv`), `OneChallengeAndOnePerCrash` (`MemoryInv`: each pending challenge is in memory, in the
  file, or answered for by a crash).

**Finance** (`ShareFinance_proofs`), for any notes, terms, prices, collaterals, ratios and
payments. Both products claim the dividends of the shares they hold and credit them by an
accumulator of their own, so one invariant serves both. `FinanceInv` joins

* `ShareInv`, the invariant of the revenue share above;
* `HeldInv`: `rsHeld` is the sum of what notes and positions hold, and the contract has
  those shares. Without it a harvest might divide by too little and credit too much;
* `Backed`: the weights, `PRECISION` times what each note and position has earned
  before the division, are together at most `PRECISION` times the coins in the contract plus
  `rescued`, `bookings` and what notes on other contracts were paid (`othersPaid`), and beside what
  those have brought in (`othersBrought`). `NotesCovered` and `EarningsBacked` are not inductive, as
  for the dividends: what a division dropped counts again after the next harvest;
* `DebtWithinLTV`.

Notes on other contracts need no invariant of their own: what their steps do to the coins is what the two
histories count (`Elsewhere`), whatever the other contract says or pays.

`HarvestCovers` is the step everything rests on: a harvest raises the weights by at most
`PRECISION` times what came in, since the accumulator rises by a floor. `Rebooked` bounds what a
change of a position's shares can round in its favour by one coin, which `bookings`
counts; a note never rounds in its own favour.

* `NotesAreCovered`, `EarningsAreBacked`: `Backed`, divided at the end.
* `DebtsStayWithinLTV`: a debt grows only in calls that end with the check of the ratio, and
  collateral left alone never loses value (`Accrues`).
* `EarningsAreKept`, the action property: `Accrues` says that the accumulator a harvest would
  leave never falls while shares are held. A call that harvests realises it, so that what
  a harvest before it and one after it would credit is the same.

**Tools** (`ProviderTools_proofs`), for any keys, sessions, chunk sizes, minimums and blocks:

* `ToolsAutoDetectHasCause`. `ScanInv`: what a search has found is exactly what the signer
  deployed in the blocks behind `from`, unless a chunk was lost.
* `ToolsUnreportedHasCause`. `ReportInv` counts deployments mined and those in the mempool nobody
  waits for (`Orphans`) together: a session cut off leaves its transaction behind, and it
  is mined much later. Counts of finite sets change by one at a time (`OneMore`).
* `ToolsOverstakeHasCause`. `TopUpInv`: for a key without cut or overlapping sessions one session at
  most is busy and everything the key has in the mempool is its own, so that the bond
  it read can only have fallen since, and what it sends tops it up to a minimum that was read.

**Onboarding** (`Enforcement_proofs`), for any answers, splitters and fees:

* `OnboardedEndpointsPass`. `HashInv`: each hash on record is that of an answer fetched by a
  tool and of its flags, with the splitter of that moment for a zero payTo. It needs
  `AnswersAssumption`: an answer with an accepts list is one the workflow can parse.
* `SplitterStaysAsNamed`. `ProviderInv`: while no two updates of the provider were under way at once,
  what one has read, in its session or in its transaction not mined yet, is still what the registry holds.
* `ChallengesCostWhatWasRead`, an action property, from `FeeInv`: the allowance never exceeds
  a fee that was read, and a transfer never exceeds the allowance.

**Indexer** (`AnalyticsIndexer_proofs`), for any number of processes, any chunk size and any
number of failed calls, exceptions and kills, over any history with what the contracts
ensure (`HistoryAssumption`: a transaction is in one block, a challenge is settled once and
after it was opened). What a step makes of its events is a recursive function. `FoldSteps` says
that it exists, and `Reaches`, an induction over a set of numbers that rests on the
well-foundedness of `<`, carries a property of the database from event to event.

* `EndpointsKeepTheirProvider`, `VerdictsStay`. `DatabaseInv`: nothing is in the
  database, or in the transaction that is open, that no event says (`Caused`), and what a
  transaction has done it only adds to what is committed (`Keeps`). The owner by which an endpoint
  finds its provider may still be the recipient of the shares, but such a row has no id.
* `DuplicatesAreExplained`. The property is not inductive: two syncs may both be about to
  write. `Account` adds to the rows of an event, written or in the open transaction, the syncs
  that have it before them, and one more if some sync may still begin that will read it; together
  they never exceed 1 plus `faults` plus `overlaps`. `Control` says where a process is and what
  its cursors cover, so that a sync that ends well leaves nothing to be read again. It is a sum over
  processes: why they have to be finitely many.
* `SyncedUnlessMissed`. `Promise`: the cursors in the file, those each sync works with, and
  each step a sync has behind it cover only events that are in the committed database or
  excused; a step waiting for its commit has its events in the transaction.
  `ProcessedHolds` is the step: every event a loop is given is in the database after it, where a
  verdict finds its challenge among the events of the same loop or in a block before
  (`VerdictReady`), and a registration the row of its deployment (`RegistrationReady`). The proof
  attempt showed what the first version of the property did not have: a provider
  registered without the factory has no row, two deployed by one transaction share one.
  `WithoutRow` is now the exception for both.
* `ViewsAgreeWithChain`. What the tables hold is stated first (`Exact`: the
  tables are what a set `T` of events makes of them, each row once, each challenge with its
  verdict, provider rows in the order of their deployments and completed by their
  registrations); `ProcessedExact` carries it through the loop of a step, whose events come where
  `Due` says. `CalmInv` then says, for as long as nothing has failed and no syncs have
  overlapped (`Calm`), that one process at most reads (`Solo`; another may be about to save
  cursors that say what the file said), and that the tables are exact for the events it has
  behind it (`Exactly`, `TakenBy`). `Explained` names the deployment of each payment passed over, which by
  `Promise` can only be one without a row. When no sync runs, the tables are exact up to the cursor
  in the file (`AtRest`), and each view follows from that: a sum or count over rows is one over
  events since each has the row 1 only (`RowsAtRest`), counts of providers, endpoints and
  challenges by one-to-one maps from the chain's (`SameSize`), and the provider of an endpoint
  because the first row of an owner is that of its lowest id and, in a `Regular` history, the one
  the registry has the endpoint under (`EndpointsFirst`, `EndpointsProvider`).

  It assumes of the contracts what `ContractsAssumption` says, and TLC evaluates: providers
  are numbered in the order they register, a transaction's events lie together, the factory
  registers what it deploys, a share earns after its deployment only, ids are used
  once, an owner registers endpoints for a provider of its own that is registered before. The part
  about providers (`ProvidersAgree`), where the chain's answer is the registry's
  `endpointToProviderId`, has the hypothesis `Regular`, which the history of
  the run meets: three kinds of history for which it is false are under
  *Divergences*. Stakes, slashes, challenges and totals need no such hypothesis.

Only model-checked: liveness (the prover has no fairness rules or `ENABLED`). Every invariant
and every action property of a passing run is a theorem.

## Divergences

Places where code and documents or comments disagree and that have no run. Where a
property is named, it has the case as an exception and fails without it.

Contracts and workflow:

* `docs/faq.md:171-174` has a bond leave only after requestUnstake and the cooldown.
  Without a request there is no cooldown: `unlockTimestamp` is 0, and
  `StakeManager.sol:83` compares with it. `SettledOrExcused` names the bond that is gone.
* `README.md:78` has the nodes compare with the on-chain hash; the workflow
  compares with the hash the event carried (`main.ts:199`). `HonestNotFaulted`
  is stated against the event, and a server that follows an update of its
  endpoint during a challenge can be found at fault.
* `docs/DEPLOYMENT.md:338` has challenges resolve automatically. A provider
  without bond cannot be slashed, the report reverts and the challenge stays
  pending (`StakeManager.sol:112`). The log trigger runs the workflow once for each event: a silent
  server (`main.ts:144`) or a report that fails (`:262`) makes it throw, and neither it nor the
  CRE watcher (`cre_watcher.py:251`) tries again. `Thrown` in `SettledOrExcused`.
* `README.md:83` and `docs/DEPLOYMENT.md:339` have the challenger refunded. An
  Invalid result pays the fee of the moment of the report, not the one paid
  (`ChallengeManager.sol:175`), hence `FeesEscrowed` in terms of
  `challengeFee`; a Valid result pays the provider (`:170`).
* `ProviderRevenueSplitter.sol:164`: distributes the entire balance. With
  `revenueShareBp` 0 and no revenue share it reverts on a remainder (`:174`); the
  factory deploys no such splitter.

Market:

* `l2/WrappedRevenueShare.sol:13`, `README.md:149`: one wRS is one RS plus accrued USDC.
  A deposit is minted one to one whatever USDC was harvested before (`:98`), and
  takes its part of it. The exception of `OnlyDepositsDilute`.
* A harvest returns 0 while there is revenue that only `claim` would distribute
  (`:215`). `setTreasury` and `setWithdrawFee` are open to anyone (`:361-373`).
* `l2/InitialAPIOffering.sol`: when the goal is reached and the provider deposits
  no RS, neither cancel nor finalize is possible and contributions stay.
  `GoalWithoutRS` in `BackersSettled`. Tokens too few for a share cannot be
  exchanged (`HoldingDust`). Dividends earned by the RS while the offering
  holds them can be claimed by no one.

Notes and APIUSD:

* `claim` pays more than the `claimable` that `_harvestRS` (`l2/APIRevenueFuture.sol:412`)
  and `_harvest` (`l2/APIUSD.sol:346`) read before it; the difference is credited to
  nobody. `NotesCovered` and `EarningsBacked` are therefore inequalities.
* `APIRevenueFuture.sol:35` has a note settled with the dividends since its creation,
  `APIUSD.sol:14-15` has collateral be the dividends since deposit. `reclaimExpired`
  (`:304`) and `close` (`:270`) return shares without a harvest, their dividends stay
  claimable, and the next harvest credits them to those who are there by then. When nobody
  else is, nothing can be harvested (`rsHeld` is 0) before the next note or position
  is in, and it gets them. `EarningsKept` says only that no one loses by it.
* `createNote` takes any non-zero `_rs` (`l2/APIRevenueFuture.sol:161-168`), credits what that contract
  calls claimable (`:412-419`) and pays every note out of one balance of USDC (`:287-288`). A note on
  a contract that pays less than it says is settled with coins the others have earned, against `:35`, and
  their settlement may revert for want of coins. `othersPaid` in `NotesCovered`.
* `close` forfeits what the position has earned, though its comment
  speaks only of debt and RS (`APIUSD.sol:269`).
* `open` with `apiusdToMint` above 0 reverts unless the debt without fee is 0: a new position
  has earned nothing yet (`:173`, `:384`).
* Earnings never fall, so that a position can become liquidatable only by rounding, for a
  few coins (`DebtWithinLTV`); "remaining debt is socialised" (`:324`) never happens,
  since the liquidator burns the full debt.
* `rescueERC20` (`:524`) refuses RS and APIUSD but not the USDC behind the
  collateral: `rescued` in `EarningsBacked`.

Watchers:

* `cre_watcher.py:175` prints that the processed challenge is settled; the
  workflow was run for the first challenge of its transaction (`:107`). `Indexed`
  in `ProcessedSettled`.
* `cre_watcher.py:6-7` has the watcher resume after going down; from a state file
  it was killed while rewriting it cannot start. The last disjunct of
  `SettledUnlessFailed` and of `MismatchChallenged`.
* `challenger_watcher.py:9` has every endpoint discovered; a chunk whose
  `get_logs` failed is not scanned again (`:131`, `:143`). `missed` in
  `ScannedAreKnown`.

Analytics:

* `analytics/README.md:12` has all contract events synced. A range whose `get_logs` failed is
  left out (`analytics_indexer.py:233`), `missed` in `SyncedOrMissed`. `EndpointUpdated`
  and the documented events of `ProviderRevenueVault` are not indexed at all. A provider that
  calls the registry itself, which `APIIntegrityRegistry.sol:94` foresees, never gets
  into the table: `ProviderRegistered` only completes the row that `ProviderDeployed` of the same
  transaction has left (`:308`). `WithoutRow` in `SyncedOrMissed`.
* POST /sync answers "ok" although `sync_once` raised (`analytics_api.py:583`), and a
  request that times out leaves its process running. `events_indexed` is never
  updated, staked amounts ignore slashes, and `slash_count` is by owner, so
  that two providers of one owner each show all of them.
* An endpoint gets the `provider_id` of the first row its owner has when it is indexed
  (`analytics_indexer.py:337-341`); the registry has the id it was registered for
  (`endpointToProviderId`, `APIIntegrityRegistry.sol:175`). Of an owner with several
  providers the endpoints of the second are shown under the first. When a sync ends between its registration and its owner's first
  deployment by the factory it has none for good, since nothing writes the row again, and is
  under no provider in any view. Of two deployments in one transaction
  the second is ignored (`tx_hash` is unique, `:68`), and their registrations complete the same
  row in turn (`:308`). The last two were found by the proof attempt; `Regular` excludes all three in
  `ViewsAgree`.

Tools:

* `cli/composed_cli/x402_metadata.py:4` "Replicates on-chain _computeIntegrityHash" and
  `README.md:351` "Verify what hash your server will register": the CLI hashes
  checksum-case addresses, `contracts/scripts` lower-case payTo, the SDK
  uses sha256; the contract hashes lower-case hex without 0x. None equals the
  hash on chain. `challenger_watcher/src/x402_metadata.py` is the same file: the watcher finds a mismatch
  at every server, challenges those that answer what is registered too
  (`challenger_watcher.py:211-228`, against its lines 5-6), and loses the fees. `LiveHash` and `RegistryHash` of
  `ChallengerWatcher` are as different as in the code, and `MismatchChallenged` promises a challenge only
  for servers that do answer other terms.
  For the same reason the `expected_pay_to` check (`x402_metadata.py:43`) compares
  checksum with lower case and never succeeds.
* `cli.py:453` shows a fee; `client.py:500` reads it again and charges that.
  `ChargedAsRead` is about the second.
* `client.py:148` gives every transaction 500,000 gas; whether two contracts can be
  deployed with it is a constant of the model (`SdkGasSuffices`).
* `cli.py:668` uses an undefined name when the account has no deployments; `challenge
  --url` insists on `--provider` and then uses only the provider id.
* The registry takes a payTo of `address(0)` for the provider's splitter
  (`APIIntegrityRegistry.sol:148`). Of a server that answers with the zero address every
  tool sends just that, the hash gets the splitter, and the workflow compares with the
  zero address. Found by the proof attempt; `SeenAlike` now has it as an exception of `RegisteredPasses`.
* An endpoint registered with the SDK under a bare path can be fetched by no
  workflow and updated by no SDK call; `RegisteredPasses` is about URLs.
* The tools fetch with GET (`hash.py:32`, `x402_metadata.py:67`) whatever the method registered, with which
  the workflow asks (`main.ts:141`). The SDK finds price, asset, network and payTo under other names, in a
  `paymentRequired` wrapper or a flat object (`hash.py:84-98`), where the workflow reads an empty string or
  no metadata (`main.ts:172-185`). Flags go before what was fetched (`client.py:312-317`, `cli.py:353-357`),
  whatever the server says; with all of them given it is not asked. Each such endpoint
  is registered and fails the check: the exceptions of `RegisteredPasses` (`SeenAlike`, `FlagsAgree`).
* `update-provider` writes back what it has read. Of two under way at once the later transaction undoes the
  other's field, also when the first command has given up waiting (`client.py:154`) and was
  taken for failed: `raced` in `SplitterAsNamed`.

## Order of the work, and what is left

Modelled first was what money depends on: Layer 0 and its composition, Layer 1, then
the watchers that drive it, the indexer and tools around it, and the part of
Layer 2 that sells, wraps, forwards and lends against revenue shares. Left are the vaults
over APIUSD and the stablecoins, over `RevenueHarvest`: `yAPIUSD` and `wcAPIUSD` mint at the
rate read after the deposit has landed.

## Not modelled

* `l2/yAPIUSD.sol`, `wcAPIUSD.sol`, `RevShareStable.sol`,
  `APIRevenueStable.sol`, `APIYieldIndex.sol`, `RebasingRevenueShare.sol`: not reached. They sit
  on the revenue share and change nothing in the contracts modelled here but through
  transfers and claims, which are.
* `ProviderRevenueShareV2`, `ProviderRevenueVault` and files with a leading
  underscore: not deployed, superseded. `MockUSDCSwap`: a testnet convenience.
* `admin_cli.py` beyond what it does to fee and minimum, listing commands,
  claims of revenue shares and the archived scripts: one transaction of a modelled
  contract each.
* Dashboard, servers and frontend: display, and the environment of the workflow.
* APR and price views: arithmetic for display over the modelled snapshots. The deployment
  transactions of Layer 0 are its initial state.
