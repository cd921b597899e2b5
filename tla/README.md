# TLA+ models of Meridian

The repository holds three programs: Soroban and ink! smart contracts for
property insurance (`src/meridian-contracts`), a NestJS backend that follows
their events (`src/meridian-api`) and a Next.js client (`src/meridian-web`). The
`README.md` at its top describes Focus, Stream and Pool contracts that are not in
the tree; everything here is read from the code that is.

The models cover the seven contracts of the cargo workspace and the Soroban
bridge beside it; of the ink! contracts those that hold value or decide who is
compliant; and of the other two programs the parts that run concurrently with
themselves: the event pipeline and the rotation of encryption keys of the
backend, and the client's offline queue. `PROJECT.json` lists, for every
definition, the lines it stands for, and under `hazards` what in this code is
hard to test, at the line where it bites.

## The system

A call of a contract is one transaction: it and the calls it makes to other
contracts succeed together or are rolled back together when any of them returns
an error or panics. So each entry point is one atomic action of its model, only
its successful outcome is a step, and the interleavings are those of whole calls
by different accounts with the passing of time. This holds of the Soroban and of
the ink! contracts alike, and it matters: what a failing call has written before
it fails is gone (see `token_expired`). Batches of the insurance contract are the
exception: they report a failed item and keep what it wrote.

The backend and the client are single-threaded processes with awaits: an action
is what runs between two of them, and the interleavings are those of handlers,
timers and restarts.

The release profile sets `overflow-checks = false`
(`meridian-contracts/Cargo.toml:49`), so sums in the workspace's contracts wrap
instead of failing; where such a sum is stored or decides something the models
compute modulo a width, `I128Max`, that the runs are small enough to exceed.

| Component | State | Operations | What makes it correct |
|---|---|---|---|
| Risk pool | provider stakes, total and available capital, claims paid, roles, storage version, state root | deposit, withdraw (and batches), payout, absorb a slash, migrate | the figures agree with each other and with the tokens held; a stake leaves only by payment or forfeit; the root is fresh |
| Policy | policies (holder, coverage, claimed, term, status), coverage cap, registered contracts | issue, renew, cancel (and batches), expire, governance patch, update claimed | claims stay within coverage, cover never resumes |
| Claims | claims and the lock of a policy on its active claim | submit (and batch), review, approve, reject, settle | one open claim per policy, each approved claim paid once |
| Circuit breaker | schedule, window, resume request, emergency | pause, emergency pause, resume (two calls), sync | no pause and no resume without its timelock |
| Governance | proposals, pending actions, voter records | six kinds of proposal, vote, finalize, execute | tally as recorded, final when finalized, executed exactly once or retried |
| Slashing | violation counts, bounded history, cooldowns | slash, configure roles and cooldowns, pause | slashes are spaced, history and count agree |
| Escrow | escrows, signatures and their counters, nonces | create, deposit, sign (and batches), release, migrate | released only when full, signed for and unlocked |
| Bridge | requests, operators, transactions, histories | initiate, sign, execute, retry, add and remove operators | locked only after enough answers, each execution answered for |
| Property token (ink!) | owners, units, approvals, verification, bridge requests, shares, asks, dividends, votes | transfers in and out of batches, the multi-signature bridge with expiry and recovery, trade of shares, dividends, proposals | the supply counts the tokens that have an owner, locks take their quorum, no account is credited a dividend or casts a vote twice over |
| Insurance (ink!) | pool and its providers, vesting, policies and their tokens, claims, evidence, disputes, reinsurance, roles | liquidity and rewards, policies, single and batched claims, disputes, market, hand-over of the admin | books agree, a claim is paid once, the holder owns the policy's token |
| Oracle (ink!) | sources, reputations, valuations, requests, alerts | valuations by admins, sources and proofs; requests; sources added, removed, punished | a valuation lies within what the sources said |
| Fees and fractional shares (ink!) | treasury, validators, rewards, auctions; balances and a dividend index | dynamic fees, distribution, bidding; mint, transfer, burn, dividends | rewards are covered, the highest bid leads, only transfers to oneself make shares out of nothing |
| Compliance registry (ink!) | records, verifiers, rules, requests | verify, screen, revoke, consent, delete, request and process | an account is compliant only after passing everything since its last verification |
| Zero-knowledge compliance (ink!) | proofs, keys, verifiers, statistics, preferences, consent | submit, review one by one and in batches, rotate keys, set preferences | a proof is decided once, by a verifier and a key that were valid |
| Event pipeline (API) | saved events, audit chain, last polled block, job queue, delayed retries, dead letters | polls, ingestion, delivery, retry, replay, purge, restart | an event that was polled is ingested and each webhook told once |
| Encryption at rest (API) | data keys, the master key each is wrapped under, configured and loaded keys | create a key, restart a server, rotate in batches, configure | no data key is lost, and between rotations every server that has restarted reads all of them |
| Offline queue (web) | queue of a page, localStorage, mirror in IndexedDB, drains | complete a session, drain, merge the mirror, close and open the page | a queued session is recorded, and not many times over; the code loses some, see `queue_kept` |

How they interact:

- `claims.submit_claim` asks the policy contract whether the policy is active and
  what is left of its coverage; `claims.settle_claim` reads the pool's
  statistics, has the pool pay the claimant and tells the policy contract.
- `governance.execute_proposal` calls claims, policy, the pool, slashing or a
  breaker, as the proposal says. A slash is two calls, to slashing and to the pool.
- Every Soroban contract with a breaker calls `sync` first and refuses while it
  is paused. The Soroban contracts check each other's ABI version before they call.
- The pool calls the token contract, which is external, as are the oracle's feeds
  and what verifies a zero-knowledge proof.
- The ink! contracts that are modelled do not change each other's state.
- The backend polls the contracts' events, chains them into its audit log and
  posts them to webhooks, whose answers are external. Its services share the data
  keys with the script that rotates the key they are wrapped under.
- Of the client's pages one is open at a time in the model; the browser's
  connection and its storage are external.

What is hard here: the same fact stored twice (lock and status, count and
signatures, claimed and settled, capital and tokens, token and policy), calls in
orders nobody wrote a test for, checks made against values another call has
changed since, a failure in the middle of several calls or of a batch, boundaries
of terms and voting periods, wrapping and rounding, full histories, crashes
between two writes, and progress that depends on somebody else's contract.

## Modules

| Module | Models | Notes |
|---|---|---|
| `RiskPool` | `contracts/risk_pool`; roles, state root and ABI check of `contracts/lib` | `balance` is the token contract. The root is the record of what is hashed: the digest is taken to be injective |
| `Int128` | integers of a build without overflow checks | `I128(x)` is what a sum `x` comes back as |
| `Policy` | `contracts/policy` | time in days; `duration_days` wraps at `DurationMod`, claimed totals at `I128Max` |
| `Claims` | `contracts/claims`, its own state | |
| `InsuranceCore` | claims, policies and pool wired together | the three instantiated on shared variables; a settlement is one step of all of them |
| `ClaimLedger` | the promise of the three together, without locks, counters or a second contract | abstract, with totals that wrap; `InsuranceCore` implements it |
| `CircuitBreaker` | `contracts/lib/src/circuit_breaker.rs` | `Pass` is `require_not_paused` at the head of a call that goes through |
| `Governance` | `contracts/governance`, its own state | any voter may pass any weight, as in the code |
| `Slashing` | `contracts/slashing`, with its breaker | |
| `InsuranceDao` | governance wired to slashing, its breaker and the pool | an execution and the calls it makes are one step; `enacted` and `besides`, what other calls forfeited, paid and counted, are auxiliary |
| `Escrow` | `contracts/escrow` | of the breaker only whether it is on |
| `Bridge` | `contracts/bridge` | `approvals` and `executions` are auxiliary: the contract keeps no such record |
| `PropertyToken`, `PropertyShares` | `contracts/property-token` | the ledger of tokens with its bridge, and on top of it shares, market, dividends and votes |
| `LiquidityPool`, `PropertyInsurance` | `contracts/insurance` | the pool with vesting, and on top of it policies, claims, evidence, reinsurance, market and roles |
| `Oracle` | `contracts/oracle` | a feed answers any of `OraclePrices` or nothing; a price is kept under the source it was read from, and the list of active sources is a set: nothing depends on their order; `quoted` is auxiliary |
| `Fees`, `Fractional` | `contracts/fees`, `contracts/fractional` | the list of validators, which refuses duplicates, is a set |
| `Compliance` | `contracts/compliance_registry` | `since` is auxiliary: the findings since the last verification |
| `ZkCompliance` | `contracts/zk-compliance` | whether a proof fits a key is fixed when it is submitted, and asked of the key at hand when it is reviewed |
| `Ingestion` | `events.service.ts`, `audit.service.ts`, `webhook-queue.service.ts` | polls overlap; a restart empties what is in memory; a delivery whose failure cannot be recorded is gone |
| `KeyRotation` | `crypto.provider.ts`, `key-rotation.service.ts`, `scripts/rotate-kek.ts` | the script is a process of its own and may be cut off between two batches |
| `OfflineQueue` | `FocusContext.tsx`, `sync-queue.ts`, `sw.js` | requests to IndexedDB are served in order and may fail; drains are records in a set, and that it never holds two is part of what is proved |
| `MCSoroban`, `MCContracts`, `MCToken`, `MCCoreEscrow`, `MCDaoToken` | instances for TLC that deploy one component, or one part of its operations, per behaviour | so that state spaces add instead of multiplying; which one is chosen initially by `deployed` or `scenario` |
| `MCInsuranceCore`, `MCInsuranceDao`, `MCBridge`, `MCIngestion` | instances for TLC | |
| `SumTheorems`, `*Proofs` | lemmas on sums and the theorems | see Proofs |

A Soroban batch handles its entries in turn and fails as a whole, so it is one
action, and the single call is the batch of one. Where amounts are non-negative,
a limit that holds for the sum of a batch held after every entry, and the guard
looks at sums. Names ending in `_Something` are mutations: the operator after
which they are named, with a bug a programmer might make. They are in no
next-state relation; with one put in the place of the original, the property it
is paired with in `PROJECT.json` is violated.

## Runs

| Run | Instance | Asks |
|---|---|---|
| `soroban` | pool: two users with two tokens each, amounts 0 to 2, batches of two; governance: two voters, weights -1 and 200 in integers of nine bits, so that two votes wrap, two proposals; bridge: three operators, two requests, histories of two | do stakes, capital and tokens stay in step; is a tally right and final and an action neither lost nor repeated; is every lock and every execution answered for |
| `core_escrow` | one user, one policy, two claims of 1 or 2 in integers that end at 2, batches of two, terms that wrap; or two escrows by requests with several signers, a lock, a duplicate, and bad values | are lock, statuses, totals and payments consistent when totals wrap too, is `ClaimLedger` implemented; are releases signed for, do counters match, is a full escrow released |
| `core_stats` | the three contracts alone, with the statistics the pool really returns | Violated: `settle_claim` decodes a `PoolStats` of four fields, the pool answers with three, and no claim is settled |
| `dao_token` | two proposals to slash or pay, with deposits, payouts and direct slashes around them; or two to slash or pause, with deposits and resumes; three violations, a history of two; or two accounts, two tokens, two requests; owners, bridge, dividends and votes in turn | is what was enacted carried out, exactly once, are slashes spaced and recorded; do locks take their quorum, do escrows cover asks, is an account credited or does it vote twice over |
| `dao_claim` | a proposal to approve a claim | Violated: governance calls `approve`, the claims contract exports `approve_claim` |
| `bridge_approvals` | the bridge as in `soroban` | `docs/tutorials/cross-chain-bridging.md:48`. Violated: a refusal counts towards the threshold |
| `token_expired` | the token of `dao_token`, with requests that run out | `docs/tutorials/cross-chain-bridging.md:72`. Violated: a token locked for a request that ran out is never recovered |
| `contracts` | the other components one by one: eighteen deployments, see below | valuations within quotes, rewards covered, pools adding up, claims paid once, compliance and verdicts earned, data keys and timelocks kept, sessions not repeated, events sent once |
| `shares_supply` | one token, two holders | `verification/invariants.rs:12`. Violated: a transfer to oneself doubles the amount |
| `queue_kept` | two sessions, two visits | `FocusContext.tsx:420`. Violated: a session queued during a drain is overwritten |
| `insurance_cover` | the insurance of `contracts` | `docs/verification.md:71`. Violated: two claims that pend together are both paid beyond the coverage |
| `audit_chain` | two overlapping polls, two events | `scripts/verify-hash-chain.ts:57`. Violated: two entries chain to one without any tampering |

The bounds are small because each hazard shows with few actors: two users let one
pay for the other's mistake, two claims suffice for a lock that is taken twice or
a coverage that is spent twice, histories of two are full, batches of two contain
the same account, policy or escrow twice. In `contracts` the oracle has three
sources, the least from which an outlier is filtered; two bidders outbid each
other; an index moves three times between two providers; a policy has two claims
and is sold between two accounts; a proof is reviewed in batches of two under
either of two keys; two polls read two blocks, the first with two events of one
transaction, around one restart and two retries; two servers and three rotations
meet four data keys in batches of two, so that a key missed by one rotation meets
the next two; two sessions are completed over two visits and two outages.

Every bound is a named constant. Bounds that stand for a limit of the code
(`MaxHistory`, `MaxOperators`, `MaxParticipants`, `HistoryCap`, `KeyBatch`,
`RetryMax`, the widths of integers) are scaled down so that the limit is reached.
Others keep the state space finite (`CapitalLimit`, `ClaimLimit`, `ProposalLimit`,
`MaxMoves`, `MaxCollected`, `MaxKeks`, `MaxVisits`, the last times and the like);
they are guards of the action that counts, and no property refers to them except
to say that time has not run out. The deployments of `MCContracts`
confine each other component to its initial state and some to a part of their
operations; each disjunct of the components' next-state relations is taken by one
of them. `MCDaoToken` keeps pauses of the slashing contract apart from payments
of the pool, which does not look at the breaker.

`soroban`, `dao_token`, `dao_claim`, `token_expired`, `contracts`,
`insurance_cover`, `audit_chain`, `shares_supply` and `queue_kept` switch deadlock
checking off: once the clock and the counters are at their bounds nothing is left
to be called. The operators of the bridge other than the admin, and two of the
oracle's sources, are interchangeable; the runs use that symmetry, and check no
liveness.

### Fairness

Nothing in the contracts runs by itself; progress needs somebody who calls. A
liveness property is therefore checked under weak fairness of exactly the calls
that anybody interested may repeat: `settle_claim` per claim (`core_stats`),
`execute_proposal` per proposal (`dao_claim`), for an escrow its participants'
signatures of a release, `release_funds` and the clock, and for `token_expired`
the admin's recovery of a request, which is what the document promises. None
assumes that a governance vote or a provider acts. `PayableClaimsSettle`, which
the code breaks and so no passing run claims, allows that a rival payout or a
patch takes away what a claim needed, and `FullEscrowsAreReleased` is conditional
on as many different participants as required signatures and on the pauses coming
to an end.

For the backend and the client only safety is stated: a page may stay closed and
a restarted server loses its retries by design, so no fairness the code offers
makes a delivery certain.

## Proofs

Every safety property of a passing run is also a theorem, for every value of the
constants. Some theorems are weaker companions of a statement that a run refutes:
`SharesAddUp` of `SupplyIsHeld`, `QueueLosses` of `QueuedSessionsAreKept`. The
core runs have one policy; batches over several are covered by the proofs alone. A
theorem is about the specification of the component's own module, or of the
composed one for `InsuranceCore`, `InsuranceDao` and the types of `MCContracts`.
The runs deploy that component, or a part of its operations, so each of their
behaviours is one the theorem speaks of: `DeployedOneByOne` proves this of
`MCSoroban` and `ScenariosAreShares` of `MCToken`; `MCCoreEscrow` and `MCDaoToken`
put two of them side by side in the same way.

### Assumptions

Each module names what it assumes of its constants (`PoolAssumption`,
`PolicyAssumption`, `GovernanceAssumption`, `BridgeAssumption` and so on), and TLC
evaluates it in the runs: sets of accounts are finite, amounts are integers, or
naturals where the type is unsigned, and widths, scales and batch sizes are
positive. Some say more, each for a reason in the code:

- `AmountsAssumption`: the bound on the pool's capital figures lies within the integers,
  so that of the pool's sums only that of the claims paid wraps.
- `TokenAssumption`: the zero account is nobody's, as it has no key.
- `InsuranceAssumption`: a listed price is not zero (`list_token_for_sale` refuses
  it), fees are at most a tenth, premium and deductible scales are positive, and
  the chain is older than one cooldown.
- `FeeAssumption`: fee configurations are records of unsigned numbers, and bidding
  is one of the operations that may be configured.
- `OracleAssumption`: sources are configured with a flag, an unsigned weight and
  one of three kinds; at least one source is needed for a valuation.
- `PartsAssumption`, `ActionAssumption`: governance, slashing and the pool share one
  set of users and of times, the pool's address is none of its users, and a
  proposal's action has one of the kinds there are, with fields to match: a slash
  names a target and a role, a pause one of the durations.
- `ZkAssumption`: those who prove are callers, and finitely many.
- `DeployedAssumption`: the few values that the deployments of `MCContracts` pick
  (an account, a property, a kind of claim, two amounts) are among the inputs.

### Results and why they hold

An invariant that the runs check is seldom inductive. What each proof adds:

`SorobanProofs`

- *Risk pool.* The invariant joins types, the ledger (no forfeit and no payment is
  negative, and the stored total of claims paid is the payments, wrapped), the
  backing by tokens and the fresh root: none is inductive alone. That a withdrawal
  leaves `totalCapital` non-negative follows only from the fact that stakes never
  sum to more than it, and that in turn from the ledger.
- *Governance.* A tally that wraps equals the wrapped sum of the records, from
  lemmas on remainders; that it has finitely many voters is part of the invariant.
- *Bridge.* The invariant counts, per request, answers since the last retry and
  executions. That nonces and transactions match the records needs only the types:
  a request keeps its sender whatever becomes of it, and a full history stays full.

`PolicyProofs`: claims within coverage and no cover that resumes, for any patches,
batches, negative coverages, and totals and durations that wrap.

`InsuranceCoreProofs`: locks, coverage and books of the three composed contracts,
and that they implement `ClaimLedger`: initial states to initial states, steps to
steps or stutters. The invariant adds to the policy's own that every claim is
listed, that a lock names its open claim and an open claim is locked, and that a
policy's total is the wrapped sum of its settled claims, for which a lemma says
that wrapping a sum step by step is wrapping it once. The refinement needs it: a
settlement maps to one of the ledger only if the claim is the one locked.

`DaoProofs`

- *What was enacted was carried out, once.* The statement is an equation: what was
  forfeited, paid and counted is what the executed proposals asked for plus
  `besides`, which every other step raises by what it does. Each execution adds one
  term to a sum, and the same amount to the pool's figures. `DaoInv` adds types.
- *The parts behave as specified alone.* `DaoImplementsParts` maps every step to one
  of the governance contract and to one of the pause protocol, or to a stutter: an
  execution is governance's own `Execute` whichever contract it reaches, and a step
  that moves the breaker is a pause, a resume or the clock. It needs that the action
  of a proposal comes with arguments the other contract accepts.
- *The pool under the DAO.* The pool alone is proved in `SorobanProofs`; here its
  stakes and payments are driven by executions. `PoolBooks` carries the ledger
  figures, the backing by tokens and the fresh root through slashes that call
  `absorb_slash` and allocations that call `payout`.
- *Slashes are orderly.* `SlashInv` says that a history is in the order of time and
  no later than now, and as long as the count says. Order is what makes the last
  record the latest, so that keeping a cooldown from it keeps one from all.

`InkProofs`

- *Liquidity.* What a provider may take is a rounded quotient less a rounded debt,
  and such a statement does not survive a change of the index. `LiquidityIInv`
  therefore speaks of `Owed`, the amount before it is divided: stake times index
  less scaled debt. It is linear in the index, so a premium adds to all of them
  together no more than was accrued, and each change of a stake costs less than
  one unit, which is where `moves` comes from.
- *Policies and claims.* `PolicyBooks` joins the tokens, the listings and the count
  of policies in force; `ClaimBooks` adds to `ClaimsArePaidOnce` that a pending
  claim has been paid nothing, which is what a second settlement would break. It
  is stated of books that are passed along, so that one lemma serves single
  claims, batches and claims that settle within their own submission.
- *Valuations.* A weighted average of prices lies between the lowest and the
  highest: from sums over the quotes, by comparing each term with the extremes. If
  all weights are zero there is no valuation, and an outlier filter only ever
  removes quotes; a confidence is a percentage because its two parts are bounded.
- *Types of the deployments.* `ContractsTypes` is about `MCContracts` as composed:
  `ContractsIInv` joins the invariants of its ten components, each kept by the
  steps of its own and untouched by those of the others. Several types are not
  inductive and rest on a reason: the demand window of a fee was last reset no
  later than now (`FeeIInv`), alerts are raised only at a threshold of zero, as a
  valuation is compared with itself (`OracleIInv`), a record names a jurisdiction
  that has a rule (`RegistryIInv`), what is polled lies behind the head of the
  chain and attempts are bounded by the retries (`IngestIInv`).

`TokenProofs`

- *Tokens and the bridge.* `TokenIInv` adds that whoever signed a request that was
  not rejected is among its approvers, whatever its status, and that tokens above
  the counter belong to nobody, so that a minted one is one more.
- *Shares.* `SharesIInv` adds `PeakCoversUnits`: nobody holds more than the most
  they ever held. It carries both the dividends, which are credited on units, and
  the votes, whose weight is units at the moment, to the history they are stated in.
- *Escrow.* That a release had its signatures follows from the counter being their
  number, so the two are one invariant; a batch of signatures adds as many as it
  has different signers because none occurs twice, and the nonces of a batch
  follow because the last request of a buyer has all of the buyer's before it.

`ContractProofs`

- *Circuit breaker.* Which fields are set together, that a pending activation is a
  timelock after its schedule, and that a resume request is no older than the
  latest schedule.
- *Shares, auctions and rewards.* Balances add up to the supply and what was
  `doubled` by transfers to oneself; an auction is led by the
  highest bid ever placed. For the rewards the two roundings are the argument: the
  validators' share is at most the whole treasury, and divided by their number and
  multiplied by it again it is at most that share.
- *Compliance.* What a pass after a failure may not restore.
- *Data keys.* While a rotation is under way every server and the script have the
  configured keys, what is done is under the incoming key and what the script
  never loaded is under the active one: without it a key created in the meantime
  might be two generations old when the configuration moves on.
- *Events.* `NothingSkipped` extends `PolledIsIngested` to what each poll in flight
  has passed, `OneJobEach` says that queue, retries and the job being sent hold
  different pairs of a webhook and an event, and none that was accepted.
- *Zero-knowledge proofs.* `BooksInOrder`: every verified proof was earned, and
  the log has one verdict for each proof decided. It is stated of the books that a
  batch hands from entry to entry. That it holds after all of them is an induction
  over the batch; see below for how that goes without an induction theorem.
- *The client's queue.* That a session is repeated at most twice a later visit is
  not inductive: what matters is what may still be recorded. `RepeatsAreDue` bounds,
  per session, how often it was recorded, plus one for each of three places from
  which it may be recorded again: an attempt under way, what this page holds or
  drains, and what a read of the mirror will find. That nothing is lost but what
  was overtaken or cut off is a separate theorem: `DrainsForget` says that what a
  drain has taken out of its copy of the queue is recorded and what the queue got
  since is overtaken, and `QueueOrderly` that a page has one drain at most.

`SumTheorems` supplies what the library does not: how a sum over a finite set
changes when one or all of its terms do, that sums are monotonic, and that the
shares of a batch add up to its total. An argument by induction over a finite
range is made there and in the other proofs through a least counterexample: the
smallest number at which a statement fails exists, is not the first, and the
one before it holds. That gives facts about a flattened sequence of blocks, a sorted
queue and a batch handled by a recursive function, without an induction theorem.

### Checked only by TLC

Liveness (`FullEscrowsAreReleased`), as fairness and
`ENABLED` are out of the prover's reach; and what a document says and a run refutes.
What a recursive definition computes is not proved in general: of Newton's iteration
in the oracle the proofs use that it yields some number, and of the filter that it
removes quotes.

## What the models leave out

Authorization is modelled where the code has state for it (roles, registered
contracts, operators, verifiers). Most role checks of the Soroban contracts look
up the contract's own address, so `payout`, `absorb_slash` and `slash_funds` may be
called by anybody once the contract holds the role; the actions say so. Premium
formulas, metadata, event emission, the text of errors and gas are left out. The
escrow contract keeps accounts only: no call of it moves tokens, and the refund
and dispute flows that documents describe have no code. Of the property token
the pause, the code upgrade, legal and vesting documents are left out; of the
insurance the actuarial models and underwriting criteria, which are written and
not read; of the oracle trends and comparables; of the pipeline webhook filters
and signatures; of the keys the cipher and their owners. The rotation assumes an
operator who runs one at a time, waits until all servers restarted, and uses the
same key again after a failure; of the client one page is open at a time.

### Differences met on the way that need no run to see

Soroban contracts:

- `docs/verification.md:40` says `total_capital >= available_capital`, and
  `verification/invariants.rs:101-108` asserts it in tests; a slash adds to the
  available capital only (`risk_pool/src/lib.rs:325`), so after a slash in a pool
  that paid nothing the available capital exceeds the total. No passing property
  says otherwise: `PoolHoldsNetCapital` compares the tokens with what the available
  capital is without the forfeited stakes, and `PoolLedger` speaks of payments.
- `expire_policy` does not look at the status: a cancelled policy can expire.
- Policies may be issued with a negative coverage; only the maximum is checked.
- After a first payment, `amount + total_claimed` may wrap and admit a claim far
  above the coverage; `update_claimed` wraps in the same way and leaves a negative
  total (`policy/src/lib.rs:331`), and so does the pool's total of claims paid.
  `ClaimedWithinCoverage` and `SettlementIsBooked` are about the wrapped totals.
- A patch may lower a coverage below an open claim, which then cannot be settled.
- Votes may be negative, so `execute_proposal`, which refuses a total of zero,
  can divide by a negative one; `verification/invariants.rs` expects more than zero.
- A long cooldown wraps and becomes none.
- A breaker's announcement is rolled back with the protected call that it stops.
- A list of participants with duplicates can make an escrow impossible to release.
- A completed bridge request can be locked and executed again after a further
  answer, and after its expiry; recovery actions other than retry do nothing.

Property token:

- A failed request can be retried while a newer one of the same token is pending or
  locked, whose slot it then takes; recovering an older failed request unlocks a
  token that a newer one bridged. As no call records an expiry, an expired request
  keeps the slot of its token, and no other can be made: `SlotNamesUndecidedRequest`
  says only that the slot names a request with no outcome on record.
- Locking a token lowers nobody's count and a failed unlock raises its sender's
  again, so the counts may add up to more than the supply, against
  `verification/invariants.rs:32-41`; `TokenSupply` is about the owned tokens.
- `place_ask` and `buy_shares` bring nobody's dividends up to date: a dividend may
  be credited to the seller and the buyer of the same share, and shares that were
  voted and passed on are voted again. `CreditsWithinPeak` and `VotesAreCastOnce`
  are about one account.
- A verified transaction hash can be used again. Locking and unlocking destroys
  and creates shares. Replacing an ask leaves an escrow above the ask, which
  `cancel` then refuses and no other call gives back.
- The unit a registration creates is not in the total of shares, and batch
  transfers do not move the owner of the token.

Insurance:

- A failed item of a batch leaves its claim approved and unpaid with the recovery
  booked; batches are not stopped by a pause. Any claim can be moved to disputed.
- A renewed policy can never claim, cancel, expire or be sold.
- `withdraw`, `execute_payout` and sales of policy tokens transfer nothing;
  vesting penalties credit capital that was never set aside; `claim_vested` pays a
  whole total again once vesting is off, and a full withdrawal forgets the
  vesting.
- Handing over the admin does not move the admin's role. Parametric claims leave
  nonce and evidence alone. The coverage limit of a reinsurance holds per
  recovery. Times are compared in seconds here and milliseconds there.

Oracle, fees, shares and compliance:

- Alerts compare a valuation with itself, so only a threshold of zero is ever
  raised (`oracle/src/lib.rs:419-422`).
- The bounds of a base fee are stored and not enforced; the distribution drops the
  treasury's share and the remainder; an auction without bids never settles.
- A burn of more fractional shares than the supply, possible after a transfer to
  oneself (`shares_supply`), is taken to trap (`fractional/src/lib.rs:248`), as it
  does where overflow checks are on. The crate is outside the workspace, whose
  release profile turns them off; built without them the supply would wrap.
- A request that no verifier can answer stays pending and blocks its account;
  verifying again wipes an earlier sanction; a direct submission leaves the
  request pending, and processing it later resets the account.
- `docs/zk-integration.md:218` says that a bad proof is stored as rejected; the
  error reverts the call, so nothing is stored. The summary of an account takes
  the status of its latest proof, whichever was decided.

Backend and client:

- `txHash` is unique, so a second event of one transaction is refused and passed
  over. After a restart the blocks are read again, and an event saved but not
  queued before the crash is never delivered. An acceptance that cannot be
  recorded is sent again. If a failed delivery cannot be recorded either, its job
  is lost and the unhandled rejection shuts the process down (`main.ts:157`). A
  poll that ends later may set the last block back.
- `verify-hash-chain.ts` leaves `previousHash` out of what it hashes and so reports
  every log as tampered with, whatever its order.
- Refreshing a token saves a second row of a `jti` the first step already saved, in
  a unique column, after revoking the old one (`refreshToken.provider.ts:116`).
- `rotate-kek.ts:4` says rotation needs no downtime: servers cannot open what the
  script has wrapped under the incoming key until they restart with it.
  `key-rotation.service.ts:18` says rows missed in a crash stay readable: what was
  wrapped again before the crash is unreadable with the old configuration, and the
  same script then fails on its first batch. `KeysStayReadable` states what is
  left of it: no key is lost, as some key at hand opens each row. Configuring the
  previous key is called optional, and is needed for the keys created during the
  rotation. `kekVersion` starts at 1 in each process, so it does not tell who
  wrapped a row.
- A session whose page closes before its first attempt ended is lost, as nothing was
  stored yet; `QueueLosses` excuses it, as it does what `queue_kept` shows. Sessions
  are recorded again after a page closed half way through a drain, at most twice in
  each later visit.

## Not modelled

`PROJECT.json` gives the reason for each component: the valuation models and
metadata registries write one record each behind an admin's check; proxy,
analytics and traits have no interaction; the library's batch, migration and
error helpers keep no state; rate limiting updates each window atomically; the
other services of the backend and the pages of the client are
request and response. Sign-in, lockout and refresh tokens are read-modify-write
around awaits over best-effort counters, listed under the hazards: every refresh
fails as described above, so few statements about them hold that could be
checked.

## Plan

The first part of the plan was the core of the Soroban contracts, the second the
event pipeline, the offline queue, the ink! contracts that hold value and the
proofs of the composed core, the third the proofs of everything else that a run
checks, with the DAO shown to implement its parts. What is left, in this order:

1. Theorems about the operators that no invariant rests on: that Newton's
   iteration ends at the root, that the pool's vesting never pays more than it
   took while it is on.
2. Sign-in, lockout and sessions, once a refresh can succeed.
3. Two pages of one browser, and the retries of the service worker's sync event.
