# Flurbo: TLA+ models, checks and proofs

Flurbo runs shared-liquidity prediction pools on a test network. A sponsor funds
a pool once, traders buy and sell claims over two to four events against an LMSR
price, the pool closes at a fixed time, an optimistic resolver decides every
event, and holders redeem. Autonomous agents trade through an SDK that signs
locally and keeps a journal; a server runs the settlement worker and keeps agent
accounts. This directory models the parts of that system whose correctness
depends on order, time, failure or arithmetic at a limit, checks the models with
TLC on small instances and proves their main invariants with TLAPS.

1. The system — 2. Modules — 3. Correspondence — 4. Runs and bounds —
5. Fairness — 6. Proofs — 7. Where code and documents differ —
8. Not modelled — 9. Plan — 10. Running it

## 1. The system

| Part | State it keeps | Operations | Talks to |
|---|---|---|---|
| Pilot pool (`contracts/src/PilotPool.sol`, `FactoredTrading.sol`, `FactoredFunding.sol`, `FactoredPositions.sol`, `FactoredBaseToken.sol`) | funding flag, holdings per owner and claim, one payout table per scope, exact maximum liability, result masks, remaining payout, receipt tokens | `fund`, `buy`, `sell`, `createBaseToken`, `wrapBase`, `unwrapBase`, `resolve`, `redeem` | the collateral token; called by its resolver |
| Learning pool (`FundedFactoredPool.sol`, `FundedPricingEngine.sol`) | as the pilot pool, and a bias per scope, a pricing reserve, a revision and the funding spent in an epoch | the pool's, and `updateBias` | an updater who pays for the reserve |
| Resolver (`PilotResolver.sol`, `AccountPilotResolver.sol`) | one case per event, votes, bonds locked and credited, delivered flag | `bindPool`, `assertOutcome`, `dispute`, `vote`, `finalize`, `deliver`, `withdrawBond` | reads `pool.funded()` and, for challenges, the challenger's holdings; calls `pool.resolve` |
| Pricing library (`FactoredQuote.sol`, `FactoredCost.sol`, `FactoredLogMath.sol`, `QuoteMath.sol`, `LmsrCost.sol`, `LmsrQuote.sol`) | none | quotes, exact worst-case liability by elimination, fixed-point bounds | called by the pools |
| CRE settlement (`CreSettlementReceiver.sol`, `FactoredCreSettlementReceiver.sol`, `FlurboCreAttestation.sol`, `workflows/cre`) | accepted report, attestations | `onReport`, repeated deliveries | an off-chain report workflow; the pool |
| Faucet (`TestAusdFaucet.sol`) | next claim time per account | `requestFunds`, `withdraw` | collateral token |
| Agent SDK (`packages/sdk/src`; ports in `sdk-python`, `sdk-rust`, `sdk-cpp`) | a journal file of intents behind a lock file, the policy | plan, sign, broadcast, reconcile, rebroadcast, report; the strategy runner | an RPC endpoint that may drop, delay or hide transactions |
| Resolution worker (`apps/web/server/resolution-worker.mjs`, `settlement-store.mjs`, `proposer-guard.mjs`, `settlement-bot.mjs`) | a Redis journal with a pending transaction, behind a lease | one tick: read the chain, choose one action, save, broadcast | resolver contract, Redis, evidence sources |
| Settlement monitor (`settlement-monitor.mjs`, `settlement-email.mjs`, `settlement-persistence.mjs`, `settlement-alarm.mjs`, `scripts/notify-settlement.mjs`) | checkpoint, signature of the last report, an outbox of mails | read the pool, queue a report, drain the outbox | the chain, Redis, a mail provider |
| Agent accounts (`agents/agent-store.mjs`, `agent-api.mjs`, `runtime-api.mjs`, `executions.mjs`, `credentials.mjs`) | agents, proposals and reviews, executions, owners of transactions, totals, profiles | propose, track, report, check, archive, change wallet | Redis, the chain |
| Wallet links (`wallet-links.mjs`) | wallets linked for manual trading | challenge, verify | Redis |
| Starter funds (`starter-funds.mjs`) | a key per account and per wallet, a daily counter, kept signed bytes | one request | Redis, the chain |
| RPC capacity (`rpc-capacity.mjs`) | slots in use, a queue | acquire, release, abort | the RPC provider |
| Pilot index (`pilot-index.mjs`) | the logs of a pool up to a block | one scan | the chain, Redis |
| Reference engine (`crates/flurbo-core`) | none | quotes, funded repricing, parlay learning | |
| Web, dashboard and native clients, indexer, scripts, plugins | views | display, data preparation | the above |

### Where the parts meet

* A trade changes the pool's holdings, its payout table and its collateral in one
  transaction, and each of them bounds what the others may be. In the learning
  pool the updater changes the price under the traders and pays for it.
* The resolver delivers to the pool exactly once, after its last case is final;
  from then on the pool's required collateral is what is left to redeem.
* Receipts (ERC-20) and holdings are two forms of one claim; a challenge to an
  assertion is open to whoever holds either form.
* An agent's process and the network disagree about what was broadcast; the
  journal decides, and several processes share it through a lock file.
* Several runners of the resolution worker share one Redis record and one signing
  key, and race the public and the panel on the resolver.
* Several web servers share one Redis: locks there expire under a slow holder, and
  only single commands and scripts are atomic.
* A wallet belongs to a person or to an agent, never both, and the two sides write
  their claims in different files.

### Which behaviours are hard

Deadlines that hand a case from one party to another at a block time; a vote in
the same block as a timeout; a result delivered while bonds are still locked;
rounding of many small redemptions against one reserve; a process that stops
between signing and broadcasting; a transaction that lands between two reads of
the chain; an expired lock whose owner is alive; a lost answer to a command that
was done; a retry of something already done; a chain that reorganises under a scan.
`PROJECT.json` lists each at the line where it bites ("hazards"), with the
properties that watch it.

### What makes each part correct

* Resolver: every bond is accounted for and lost only by a ruling; every result
  has its reason; a final case never changes; the result reaches the pool and
  cannot be refused.
* Pools: payout tables count exactly the shares that exist; collateral covers
  pricing, worst payout and reserve; everything outstanding is redeemable; the
  updater of a learning pool stays within his limits and leaves no quote uncovered.
* Agent: nothing is sent before it is journalled; what the journal calls final
  is true of the chain and stays so; two processes cannot pass one limit.
* Journal lock: one process at a time; no update is lost; a dead owner's lock is
  recovered.
* Worker: one durable transaction at a time, retries bounded, foreign claims left
  alone, and a pool that settles although only the worker acts.
* Monitor: what was observed and saved is told, in order, never twice.
* Server accounts: a purchase counts once, for the record that owns it; an issued
  review stays recoverable; a wallet has one owner.
* Starter funds: no kept payment is forgotten while it can land; the cap holds.
* RPC capacity: no slot is lost or used twice, nobody waits while one is free.
* Index: what is stored is exactly the log of one chain.

## 2. Modules

| Module | What it is |
|---|---|
| `EventSettlement` | what the resolver promises: claim once, counter once, decide once, publish once |
| `PilotResolver` | every transaction of `PilotResolver.sol`; implements `EventSettlement` (`ImplementsSettlement`) |
| `PilotPool` | every transaction of `PilotPool.sol` and of the contracts it inherits from |
| `FundedPool` | the learning pool: extends `PilotPool` with the bias, the pricing reserve, the updater and the priced trades |
| `Pools` | a behaviour of one of the two pools, chosen when it is deployed |
| `Sums` | the sum of a function over a finite set, used by the pools and the executor |
| `PilotSettlement` | `PilotResolver` and `PilotPool` together, with the dispute rule of `AccountPilotResolver.sol` |
| `ResolutionWorker` | extends `PilotResolver` with the worker: runners, lease, journal, signer and network |
| `AgentExecutor` | `executor.ts`, `recovery.ts`, `effects.ts`, the relating limits of `policy.ts`, the chain and the network |
| `AtomicJournal` | what `locked` promises its caller: read, change and write as one step, once |
| `JournalLock` | `journal.ts`: the lock file and the journal file, one file operation per step; implements `AtomicJournal` (`CallsAtomic`) |
| `AgentRecords` | proposals and executions of agents on several servers, the SAVE script, ownership, totals, archiving |
| `AgentWallets` | the wallet of an agent and linked wallets, command by command |
| `StarterFunds` | a request for starter funds, command by command, with the node and the kept payment |
| `RpcCapacity` | slots, queue, abort and cooldown |
| `PilotIndex` | a scan of the chain, call by call, against reorganisations and other servers |
| `SettlementMail` | a run of the monitor: observation, outbox, sending under a lease |
| `MC*` | instances for TLC: constants, symmetry, and two harnesses that run several modules (section 4) |
| `SumProofs` | TLAPS lemmas about sums and maxima over finite sets, for the proofs below |
| `ResolutionProofs` | TLAPS proofs about `PilotResolver` (types, rulings, refinement, bonds) and about `ResolutionWorker` on top of them |
| `PilotPoolProofs` | TLAPS proofs about both pools (`Pools`) |
| `PilotSettlementProofs` | TLAPS proofs about a pool and its resolver together |
| `JournalLockProofs`, `AgentExecutorProofs` | TLAPS proofs about the two agent modules |
| `ServerProofs` | TLAPS proofs about `RpcCapacity`, `AgentWallets`, `PilotIndex`, `SettlementMail` and `StarterFunds` |
| `AgentRecordsProofs` | TLAPS proofs about `AgentRecords` |

`PilotSettlement` instantiates the two contract modules on shared variables (the
clock, `funded`, and the pool's result) and conjoins their actions: `Deliver` is
the resolver's `Deliver` and the pool's `Resolve` in one step, as `deliver` calls
`pool.resolve` in one transaction. `ResolutionWorker` conjoins in the same way: a
transaction of the worker that is mined is the resolver's action, or a revert
where that action is not enabled (`Reverts`). `AgentExecutor` treats a body that runs under
the journal lock as one step; that `JournalLock` implements `AtomicJournal` shows when
this is justified, and `lock_takeover_race` when it is not. No module declares a `RECURSIVE` operator; sums over sets use the
community folds.

A definition named `X_Something` next to `X` and marked "Mutant" is a changed
form of `X`, used nowhere: it stands for a plausible mistake in the code, and
putting it in place of `X` makes the property it is paired with fail.

## 3. Correspondence

### PilotResolver

| Model | Code |
|---|---|
| `cases[e]` | the `Case` struct, without evidence hashes and with the counters in `votes[e]`; `voted` is the mapping |
| `wallet`, `held`, `lockedBonds`, `credits`, `totalCredits` | token balances and the contract's counters, in units of the immutable `bond` (every amount is a multiple of it) |
| `bound`, `delivered` | `address(pool) != 0`, `delivered` |
| `funded`, `resolved`, `resolvedState`, `voidMask` | the pool's variables; masks are sets of events |
| `custody` | history variable: where each posted bond is; it lets properties speak of one bond while the contract keeps sums |
| `now`, `Tick` | `block.timestamp`; several transactions may share a value |

A call that reverts changes nothing, so it is a disabled action. Checked
subtractions are conjuncts (`lockedBonds >= Stake(...)`): if one could fail, a
case could not be finalized, and `BondsBacked` would show it. `Vote`
that reaches the quorum finishes the case in the same step, as the code does.
`vote` and `withdrawBond` do not call `requireActive`, and neither do the
actions. `Fund` is the pool's transaction; here only its effect on `funded`
counts, in `PilotSettlement` it is the pool's own action.

### PilotPool

A state of the world is the set of events that end YES. A claim is a record of a
scope (a set of events) and a mask (the local states in which it pays); `factors`
is `storedFactors`, one table per scope. `Exposure`, `MaxPayout` and `InDomain`
are what `FactoredCost` computes by elimination, defined directly. The LMSR cost
is known to the contract only through an interval (`FactoredCost.bounds`), so
`CostLower` and `CostUpper` are parameters with one assumption: the interval is
one, and its upper end is at least every state's payout. Rounding is the code's:
`CeilDiv` for a buy and the funding, the floor for a sale and a payout, the
ceiling for the reserve. The caller's `maxCost`, `minProceeds` and deadline only
decide whether his call reverts, so every value of them is covered by the action
being possible or not happening. `resolve` is open to any pair of disjoint masks
here and constrained by the resolver in `PilotSettlement`.

### FundedPool

`bias`, `pricingReserve`, `revision`, `updateCount`, `lastUpdateAt`,
`fundingEpoch` and `epochFundingSpent` are the contract's variables. The updater
prepares an update off chain from the book he reads (`ProposeBias`) and sends it
later (`UpdateBias`); the contract compares only the revision, and the model keeps
in `proposal` what he had read so that a property can compare it. `paidIn` is a
history variable of what he paid in each epoch. The bias tables are a small set
`Biases`; `Movement` is the code's sum over the tables of the range of their
change. The engine quotes on the payouts joined with the bias; it does not check
cover, and the pool does.

### PilotSettlement

`Eligible` is `hasQualifyingShares` for some holder and claim. The attestation
that accompanies a dispute is signed off chain for one caller and names a holder
who need not be the caller; the contract then checks the holding itself in the
same transaction, which is what the model keeps. Its nonce and its lifetime of at
most two minutes make more disputes revert and enable none.

### ResolutionWorker

| Model | Code |
|---|---|
| `book`, `runner[r].book` | the journal stored in Redis, and the copy a tick loaded and writes back whole |
| `Acquire`, `LeaseLost` | the lease and its renewals, each before the step they guard |
| `Confirm`, `Resend`, `LeavePending` | a pending transaction: receipt found, the same bytes again with the attempt saved first, left for the next tick or for a person |
| `Plans`, `Finishable`, `Provable`, `Own` | `nextResolutionAction` |
| `Rest`, `NoEvidenceYet`, `Prepare`, `Unprepared`, `PlanChanged`, `Sign`, `Persist`, `Broadcast` | the rest of the tick, one step per call that other parties can come between |
| `Refuse`, `Crash` | every check that ends a tick without a change, and the end of the process |
| `Expire`, `Evict`, `Mine`, `Others` | Redis, the node's pool, blocks, the public, the panel and the clock |

`sends` is a history variable of broadcasts. The lease lasts five minutes and the
windows of the resolver hours, so a lease expires by an action of its own, not by
the clock, and it may do so under a live holder.

### AgentExecutor

| Model | Code |
|---|---|
| `journal[e]` | a journal entry: status, action, nonce, deadline, cost, plannedAt, owner; `free` entries do not exist yet |
| `pc`, `cur`, `view` | where a process is in `plan`, `sign`, `broadcast` or `reconcileEntry`, on which entry, and what it has read and not yet used |
| `ReadForPlan`, `Plan`, `PlanRejected` | the reads before the lock; the policy check and reservation under it |
| `Sign`, `SignRefused`, `SignSkipped` | `sign`, one locked body; an exception in it leaves the journal as it was |
| `Send`, `SendUncertain`, `Mark` | `broadcast`: the node took the bytes, or the call threw; then the locked update |
| `ReadEntry`, `Lookup`, `ReadCount`, `Resend`, `Apply` | `reconcileEntry`: journal snapshot and head block; receipt and transaction by hash; the nonce count and `recoveryStep`; the same bytes again; the compare-and-set |
| `Crash` | a process stops anywhere and is started again under another pid; entries it owned then belong to `Gone` |
| `used`, `mined`, `cost`, `recent`, `mempool`, `inflight` | the chain as seen from one wallet: nonces used, what became of each transaction, the head block's own transaction, what the node knows, what was sent and has not arrived |

Choices worth knowing:

* The body of `locked` is one action. The journal file is replaced by a rename,
  so a crash inside leaves the old one; a crash before or after the body is the
  action `Crash` between two steps.
* The receipt and the transaction are looked up in one step (`Lookup`): a
  transaction found by either is found, and what can happen between those two
  calls also happens between `ReadEntry` and `Lookup` or before `ReadCount`.
* A block may have the same second as its parent, because the code compares whole
  seconds; `now` is the time of the head block and of every clock.
* A deadline is set from the block of the quote, taken here to be the block in
  which the plan is made; plans are made early enough for it to pass.
* A transaction whose nonce has been used leaves `mempool` and `inflight`: it can
  never be mined again, whatever happens to it. A reorganisation of the head
  block returns its transaction to the node's pool.
* `AtomicReads` is a bound on the environment, not a feature of the code: TRUE
  keeps the chain still between `Lookup` and `ReadCount`. The run with TRUE shows
  that the accounting is right when the two reads agree, the run with FALSE that
  they need not agree (section 7).
* Every buy and sale is of one share of one claim with one price limit.

### JournalLock

The lock file is created by `openSync(..., 'wx')` (`Create`) and stamped by a
second call (`Stamp`), through its descriptor: a file unlinked in between is
written into the void. A process that finds the file reads and judges it
(`Inspect`), and only then unlinks whatever file has the name (`Unlink`).
`Release` unlinks whatever file has the name. A process is a pid that makes one
locked call adding its own update to the journal; `committed` is a history
variable of the calls that returned. The age of the lock is the clock. A lock
whose creator died before stamping it is never judged stale, because its
contents do not parse (`journal.ts:70`): the model keeps this, and
`StampedLockRecovered` claims recovery only for stamped locks.

### AgentRecords

Every change is `mutate`: `Stage` takes the account's lock, reads the agent, edits
the copy and applies `retain`; `Save` is the SAVE script, which compares the
revision and the owners of the transactions it claims, and writes or refuses. The
slow half of a request (preparing a review, archiving) is outside the lock, so a
request is a `job` with a step. Revisions and versions are only ever compared for
equality, so they are the flags `fresh` and `same`, cleared for the others by each
save (`Outdated`). A review stands for the digest of the transaction it prepared,
and two proposals may prepare the same one. `Check` and `CheckExecution` read the
receipt, decide whose the transaction is and count it in one write, as the code
does. `FullProposals` and `FinalKept` are the retention limits of 50 and 500.

### AgentWallets

`associateWallet`, `archive` and `update` against `verify`. A change takes the
account's lock and is then up to three commands: `ClaimWallet`, `FreeWallet`,
`StoreProfile`. Profiles carry no revision. `Tear` is the lock expiring under a
change, with or without its server; `torn` remembers the agents it happened to.
Every agent has an account, so the lock is per agent.

### StarterFunds

Each command to the store and each call to the node in `send` is a step, in the
order of the source. A broadcast whose answer is lost leaves the payment in
`flight`, from where it may still arrive; its bytes are kept in `unsent` until
they expire. `slipped` is a history variable: wallets whose kept payment was given
up although it could have landed, by the two reads of section 7 or by expiry.

### RpcCapacity

`GiveSlot` hands the slot of a finished request to the head of the queue, which is
`granted` from that moment and goes on later (`Proceed`), or is aborted meanwhile
(`Abort`) and gives the slot back.

### PilotIndex

A block is its fork and whether it holds a log, the hash of a block is the chain
up to it. Every call of `scan` is a step, `Grow` and `Reorganise` come between any
two, and `StoreIndex` is the compare-and-swap. The shrinking window and the 2000
log limit are a window of any size up to `WindowSize`.

### SettlementMail

A report is a number that grows with what changes on chain, a mail is its key and
the report it tells of. `SaveOutbox` writes the observation and the mail it owes
together, under the lease. The provider remembers a key for 24 hours and the code
sends nothing older than 23; requests last seconds, so no mail is under way while
these times pass (`Quiet`).

## 4. Runs and bounds

All runs finish within the five minutes a run may take. `MaxTime` and the other
bounds stop the clock or the environment; no protocol step is bounded away.

| Run | Instance | Shows |
|---|---|---|
| `resolver_two_events` | 2 events observable at times 2 and 3, all periods 1, panel of 3, 2 public accounts with one bond each, clock to 6 | all resolver safety, `ResultIsFinal` and the refinement of `EventSettlement` |
| `pilot_pool` | 2 events, YES and NO of one and the parlay of both, 2 traders, lots of 3 atoms, single-atom redemptions, half-atom cost bounds, collateral to 13; for the learning pool 1 trader, 5 bias tables, an epoch limit of 2, 3 revisions | all pool properties; `UpdatesBounded`, `LearningQuotesHonoured` |
| `settlement` | 2 events, one share of NO of the first, panel of 3, 2 accounts, clock to 6 | `ChallengePossible`, `ClaimsPayRuling` |
| `resolution_worker` | 1 event, windows of 1, 2 runners, 2 broadcasts per transaction, 4 nonces, 1 fault, 2 lost or evicted sends | `OneDurableTransaction`, `ResendBounded`, `FinalizesOwnClaims`, `WorkerSettles` |
| `executor_two_processes` | 2 processes, 2 buys, 1 reorganisation, reads not atomic | `JournalledFirst`, `FinalTellsTruth`, `NoncesDistinct`, `FinalIsFinal` |
| `executor_atomic_reads` | 2 processes, 2 buys of limit 2 under a total of 3, 1 foreign transaction, 1 crash | `ReservationsWithinPolicy`, `SpendWithinLimit`, `ReplacedNeverLands` |
| `executor_liveness` | 1 process, buy and approval, 1 crash | `EveryTradeSettles` |
| `lock_takeover` | 2 processes, 1 crash | `MutualExclusion`, `StampedLockRecovered` and the refinement of `AtomicJournal` (`CallsAtomic`): every call that returns was one atomic update |
| `server` | the six server modules, see below | `AccountedOnce`, `IssuedReviews`, `GrantsAccounted`, `SlotsConserved`, `WalletsExclusive`, `IndexFaithful`, `MailTold` |
| `executor_replaced_race`, `lock_takeover_race`, `starter_paid_twice` | the smallest instances that show it | a statement of a document or comment the code does not keep (section 7) |

Two runs are harnesses. `MCPilotPool` explores `Pools`, the pilot pool or the learning
pool, whichever the variable `pool` chose at the start; the learning pool is explored
with one trader and without receipts, which are the pilot pool's own. `MCServer`
runs one server module per behaviour, chosen by `scenario`; the modules share no
state in the model. `AgentRecords` has four scenarios, each with bounds of its own
(constraint `Bounds`): two proposals of one decision and the retention limit;
an approval and a purchase of one proposal with two transactions; a runtime's
reports beyond the retention limit with an expiring lock; and a proposal and a
runtime claiming one transaction, with one expired lock or dead server.

Why the bounds are enough:

* Resolver: a case touches the others only through the sums of bonds and through
  `deliver`, so two cases, one of which opens later, show every overlap of
  phases. With one bond per account, running out of money is reached. A panel of
  three reaches a majority, a split and silence. The last deadline is
  3 + 1 + 1 + 1 = 6, the last clock value. The same properties are proved for all
  values (section 6).
* Pool: two scopes that share an event make `Exposure` a sum of tables; three
  claims suffice for a state to be covered by none, one or two of them; lots of 3
  with single-atom redemptions and a void event make payouts of a half round in
  every way a split can. Costs are bounded in half atoms, so that cost and funding
  both round. The parameters reach every action and both ends of each comparison.
* Learning pool: the five tables raise, lower and move the reserve; the clock
  crosses an epoch; a limit of 2 is spent in part, in full and exceeded.
* Settlement: two events, one with shares at stake and one without, and two
  holders who hand receipts to each other.
* Worker: one event passes through every plan (approve, assert, finalize, deliver);
  two runners meet at every step of a tick. One fault and two losses spend the two
  permitted broadcasts.
* Executor: two processes on one journal show every pair of steps; two entries
  show every conflict about nonces, reservations and order. One foreign
  transaction, one reorganisation and one crash are single faults at any point;
  combinations of two kinds of faults are beyond the time limit and are not
  claimed. The clock has two values, before and after the deadline.
* Lock: with two pids and one crash every step of one process meets every
  step of the other. `MaxAge` is beyond `StaleAge`; it is below four times
  `StaleAge`, that is, no live call is taken for dead.
* Server: two servers meet at every command; two transactions, wallets and
  accounts show every conflict about ownership. Capacity has two slots, one place
  in the queue and four requests, so that one is refused. The index has one scanner
  and one reorganisation of a chain of three blocks: a second scanner meets the
  first only in the compare-and-swap. The mail run has an outbox of one, so that it
  overflows, and two jobs.

Symmetry is used for interchangeable accounts, reviewers, traders, processes,
servers, transactions and unused entries, and only in runs without liveness.
Deadlock checking is off where the system really stops: after settlement, or when
every process has made its call or every bound is used up.

## 5. Fairness

* `ResolutionWorker!FairWorker`: block time advances and blocks are mined; a
  started tick goes on, since every call returns or times out; an expired lease is
  removed by Redis; and the bot starts a cycle every two to ten minutes, so some
  runner acquires a lease that is free again and again (strong fairness of
  `Acquire`, which the lease of another runner interrupts). Nothing is assumed of
  the public, of the panel, of evidence or of delivery.
* `AgentExecutor!FairSpec`: blocks are produced; the node mines or evicts what it
  holds; a process that has begun a step goes on; and the runner reconciles every
  open entry again and again (strong fairness of `ReadEntry`, which other work of
  the same process interrupts). Nothing is assumed of delivery: every send may be
  lost.
* `JournalLock!FairSpec`: a live process takes its next step and calls again after
  a conflict; time passes.

`WorkerSettles` is what the code promises under this fairness and no more: a pool
whose claim is somebody else's and unchallenged, or whose saved transaction has
spent its broadcasts, waits for a person.

## 6. Proofs

All proofs are for every value of the constants that satisfies the named
assumptions, which every run evaluates on its own instance.

**Resolver** (`ResolutionProofs`, first part).

1. `TypeCorrect`: `TypeOK` is inductive by itself.
2. `IInv` adds, for each event, `CaseInv`: what must have happened before a phase
   (`PhaseShape`), that a quorum of votes is only ever reached by the vote that
   finalizes (`QuorumDecides`), one of four reasons for a final case (`Reason`),
   and the ballot count (`Counted`). It is needed because `ResultJustified` is not
   inductive: that a case finalized by a timeout has no majority follows only from
   a majority finalizing at once. A step touches one case, so the proof is per
   event, with one frame lemma for the rest. It gives `ResultIsFinal`,
   `ResultJustified`, `BallotsCounted`, `WithinHorizon` and `DeliveryNotRefused`.
3. `BondInv` adds that every counter is the cardinality of the set of bonds it
   stands for and ties a bond's custody to the phase of its case. The arithmetic
   is about cardinalities of disjoint unions and differences of finite sets. It
   gives `BondsBacked` and `SettlementMatches`.
4. `OwnerInv` adds who owns each bond and gives `BondLostOnlyByRuling`.
5. `ResolverImplementsSettlement`: initial states map to initial states, and under
   `IInv` every step maps to a step of `EventSettlement` or a stutter.

**Journal lock** (`JournalLockProofs`). `SafeTakeover` and `UpdatesKept` prove
`MutualExclusion` and `NoLostUpdate` for any number of processes under two
conditions: `HeldBriefly` (no call outlives four times `staleMs`) and
`LoneSurvivor` (nobody crashes, or a single process is left to find the lock).
The invariant says that a process about to unlink has judged the file that is
still there, that a holder owns the file, and that nothing was written since a
holder read the journal. The run `lock_takeover_race` shows that the second
condition cannot be dropped.
`LockedCallsAtomic` proves from the same invariant that `JournalLock` implements
`AtomicJournal`. The abstract call is the write: what the process read is still the
journal (`CopyIsFresh`), and a process writes once (`ReturnedOnce`). Every other file
operation, every crash and the clock are stutters. This is what lets `AgentExecutor`
take a locked body for one step. `NoLostUpdate` is a consequence of it that needs no
reading of the abstract module, so it keeps its own theorem and no run of its own.

**Sums** (`SumProofs`). The models use the folds of the community modules, and the
induction theorems of the library cannot be used here (they take an operator as a
parameter). What the proofs need of a fold is proved without them, from the
well-founded order on finite sets: a set of subsets that contains the empty set
and is closed under adding one element contains the whole set (`SetInduction`), by
taking a minimal counterexample. From it follow that the function a fold chooses
exists, that a sum does not depend on the order of its elements, that it is
additive and monotone, what one changed summand does to it, that two sums can be
exchanged, that a finite set of numbers has a maximum, and that counting is a sum.

**Pools** (`PilotPoolProofs`). `Book` is what the two pools share: every cell of a
payout table is the sum of the shares that pay there, receipts are the escrowed
shares, and after a result the reserve, multiplied out, is at least what all
shares pay. `IInv` adds that the pilot pool's collateral is at least the upper
bound of the cost of its book; `LInv` adds the reserve of the learning pool, and
what its updater has spent. Three arguments carry the proof. A book of claims
turns into payouts per state by exchanging sums (`TotalIsPayout`); this shows that
the reserve computed from tables is enough for shares (`ReserveIsEnough`). A trade
is paid at the difference of an upper and a lower bound, so the collateral stays
above the upper bound whatever the cost function is (`BuyStep`, `SellStep`).
Rounding goes down for payouts and up for reserves (`CeilDivAtLeast`,
`CeilDivLeast`). `PoolSafe` concludes for both pools, and `PoolTables`,
`PoolCovered`, `PoolRedeemable`, `PoolReceipts`, `PoolUpdates`, `PoolQuotes` and
`PilotPricing` are the properties of the run `pilot_pool`. `RedemptionsHonoured`
says in addition that a holder's redemption never fails on any of the checks of
`redeem`. `PilotPricing` is about the pilot pool alone: the learning pool trades
at biased costs, about which `CostAssumption` says nothing that would relate them
to the cost of the book without the bias; what the learning pool owns is
`PoolQuotes` and `PoolCovered`.

**Settlement** (`PilotSettlementProofs`). A step of the composition is a step of
the resolver or leaves its variables, and the same for the pool (`Together`), so a
behaviour of the two is a behaviour of each: `SettlementIsResolver`,
`SettlementIsPool`. Everything proved of `PilotResolver` and of `PilotPool` thus
holds of them together. `RulingsPaid` needs of the resolver that a delivered
result is the results of final cases, and of the pool's fractions that an event
which is not void is the same in all states that agree with a result, while a void
event happens in exactly half of them (`Halves`, by a bijection).
`ShareholdersCanDispute` needs that receipts in circulation are the escrowed
shares and that nothing is escrowed before the receipt exists; a share is then
held by a trader or by the holder of its receipt, who qualifies either way.

**Executor** (`AgentExecutorProofs`). `FinalEntriesKept` proves `FinalIsFinal`:
the chain plays no part in it, only the statuses a process may hold in its view.
`ExecutorInvariant` is the inductive invariant behind the rest. It says of every
process, whatever its view and however old it is, that what it read of the chain is
still so, or the entry it read about is no longer open; of every entry, that its
status is justified by the chain; and of the journal, that the nonces of its
entries leave no gap that a later entry could fill twice. `ExecutorJournal`,
`ExecutorTruth`, `ExecutorNonces` and `ExecutorPolicy` hold for any processes,
entries, policy, network, reorganisations and crashes, with reads atomic or not.
`ReplacedTransactions` and `SpendingBounded` hold when the receipt and the nonce
count are read at one chain state and the chain is not reorganised (`AtomicReads`,
`MaxReorg = 0`). The second condition is as necessary as the first: with one
reorganisation and a spending limit of 4 in `executor_atomic_reads` TLC finds a
behaviour of 23 states in which an expired entry and the one that reused its nonce
are both sent, the late one is mined first and reverts, the other is read as
replaced, and a reorganisation then lets the replaced one be mined.

**Worker** (`ResolutionProofs`, second part). `WorkerInv` has four parts. `RunnersOk`: the
copy of the journal a runner holds is the stored one as long as the lease is his, a
signed transaction then has the next nonce, and a saved one is where every later
runner finds it. `ChainOk`: only the pending transaction can still be mined, so
nothing mined shares a nonce. `CountOk`: the broadcasts made and those about to be
made by runners that saved and went on without the lease (`Savers`) are within the
attempts the journal counts; counting broadcasts alone is not inductive. `CallsOk`:
a planned `finalize` stays harmless to foreign claims until it is mined
(`Endable`, which no step of the contract takes away: a case past its deadline gets
no assertion, and an open claim keeps its asserter). They give `OneTransaction`,
`BroadcastsBounded` and `EndsOwnClaims` for any runners and faults.
`WorkerIsResolver`: a behaviour of the worker is one of `PilotResolver`, so the
theorems about the contract hold while it runs. The proofs do not open `Reverts`,
the only place that says ENABLED: they hold whatever the contract refuses.

**Server** (`ServerProofs`, one invariant for each component, which share no
state). `SlotsNeverLost` proves `SlotsConserved` for any requests, slots and queue
length. The invariant says that the counter is the number of requests in a phase
that holds a slot, that the queue holds exactly the queued requests, each once,
and is empty while a slot is free. `WalletsKeptApart` proves `WalletsExclusive` for
any servers, agents, wallets and torn changes. Untorn agents keep more than the
property says: while a change is under way its worker holds the lock, no other
worker changes that agent, and the profile it read is still the stored one;
without this a second change could free the wallet the first one claimed.
`IndexHonest` proves `IndexFaithful` for any scanners and reorganisations: every
hash a scanner remembers names a chain that was canonical, the logs it collected
are those of that chain, and the two ends of a scan lie on one chain because the
boundary was read after them (`StoreSteps`). `MailKept` proves `MailTold` for any
jobs: of every run at its send, owner of the lease or not, the mail waits in the
outbox or was delivered, and no earlier one is missing. `StarterInvariant` says what
a request for starter funds knows at every point between two commands: which payment is kept for a wallet,
that at most one payment to it is mined or can still be (`Live`), and how far the
request with the lock has got (`Stage`). `StarterAccounted` gives
`GrantsAccounted`; for the cap, payments sent and requests that are counted
together never exceed the day's counter.

**Records** (`AgentRecordsProofs`). A save compares the revision it was computed
from, so what matters of a staged copy is only what holds while it is `fresh`.
`RecordsInductive` states it: such a copy is an edit of the stored state
(`Edited`), whichever servers edited, lost their lock or died meanwhile. Its parts
are what the properties need. `CountedOk`: a counted purchase is on the chain as it
was reviewed, and is owned by the record that counts it or claimed in the same
save. `TotalsOk`: an execution is counted with its claim. `ReviewsOk`: no issued
review is missing from the copy, and once the feed is cleared none is new.
`TouchedOk`: a proposal that waits for the person goes on waiting in a copy that
does not bump its version, which is what a refresh in another request relies on;
and `ProposalOk`: whatever was sent had been issued, one transaction at most is
tracked and it decides the status. Only two steps need an argument of their own.
`Retain` keeps an edit an edit (`RetainKeeps`): a proposal it drops issued nothing,
and no verified execution is lost while no more transactions exist than it keeps,
because the verified ones have distinct transactions (`RetainFinals`, an
injection). The save (`SaveStep`) makes the copy the stored state and its claims
owned; everybody else's copy of that agent stops being fresh. `RecordsAccounted`
gives `AccountedOnce` and `ReviewsStay` the action property `IssuedReviews`, for
any servers, agents, reviews, transactions and bounds.

**Only model-checked.** Everything under fairness (`WorkerSettles`,
`EveryTradeSettles`, `StampedLockRecovered`): temporal reasoning about fairness
and ENABLED is outside this prover.
`PricingCovers` for the learning pool, as said above.

## 7. Where code and documents differ

`PROJECT.json` quotes each statement; a run exhibits each one.

* `executor_replaced_race`: the receipt and the nonce count are two calls. A
  delayed send that arrives and is mined in between is recorded as `replaced`,
  final, although it was executed. With both reads at one chain state the
  statement holds (`executor_atomic_reads`).
* `lock_takeover_race`: two survivors that both judged a crashed process's lock
  stale can remove each other's new lock and run together.
* `starter_paid_twice`: the search for a kept payment and the nonce count are two
  calls as well (`starter-funds.mjs:76-77`). A payment mined in between is deleted
  as superseded, and the wallet is paid again once it is low. The same happens when
  the kept bytes expire after 24 hours (line 89) before they land. `GrantsAccounted`
  states what does hold: outside these two cases (`slipped`) every wallet is paid
  at most once.

Observed while modelling; no run of the project exhibits them:

* Holdings are read before the journal lock (`executor.ts:74`), so a buy that
  another process confirms in between is in neither number, and two processes can
  pass a position limit that fits only one of them. The spend limit has no such
  gap, and `ReservationsWithinPolicy` claims only the reservations.
* The nonce of an expired entry is reused by the next transaction only if no later
  transaction is open (`executor.ts:119-120`); until then later ones wait.
* A runtime that reports a hash again after its record was dropped from the newest
  500 verified executions has it verified and counted again, since it still owns
  it; `agent-store.mjs:221` says that dropping "can never cause a second count".
  The model does the same with one record kept, so `AccountedOnce` claims that the
  totals are exact while no more transactions exist than records are kept, and
  that they never fall short.
* A server that dies, or loses its lock, between the commands of a wallet change
  leaves a profile that shows a wallet another agent may claim, or writes an older
  profile over an archived one. `WalletsExclusive` excepts exactly those agents
  (`torn`) and still keeps links and agents' wallets apart for all.
* `resolve` computes the reserve of a partly void result and does not check that
  the pool owns it (`PilotPool.sol:62`); `AlwaysCovered` shows that it does.

## 8. Not modelled, and why

The map covers a small part of the 29,500 lines that count as implementation:
most of them are pages, rendering, wallets' user interfaces, fixtures, language
ports of one library and data preparation, none of which keeps a state that
decides money or outcomes. What is left out of the parts that do:

* Fixed-point logarithm and exponential (`FactoredLogMath`): 256-bit arithmetic;
  the pool model takes the interval it returns as a parameter. The elimination in
  `FactoredCost` is on the plan.
* Signature checks, encodings, evidence URIs, report wording, HTTP, sessions and
  sign-in: data that no state of the models depends on.
* In the executor: reports to the server, the precheck before a quote, spending
  windows, worst-case loss, gas and per-trade limits. They only refuse more plans
  (a refused plan is `PlanRejected`), except the windows and the loss limit, which
  relate entries to each other and are on the plan.
* The runner and the paper book: a loop around the executor with a stop file; the
  paper book is written under the same lock and holds no money.
* The lock rule for owners on other hosts, and transient errors of Windows.
* In the worker: the round over several pools (a pool with a pending transaction
  comes first, otherwise the round only orders ticks), the validation of prepared
  bytes, and what the monitor, the proposer guard and the evidence readers look
  at; their verdicts are `Refuse` and `NoEvidenceYet`.
* In the monitor: the alarm's counters, the outbox of read failures (it drains the
  same way) and the merging of captures.
* On the server: creation and index of agents, credentials, heartbeats, rate
  limits, member notices, funding alerts, the v1 migration.
* CRE reports and the faucet: planned, and one mapping with one comparison.
* Reference engine: pure functions, mostly in floating point, not run where money is.
* Web, dashboard and native clients, indexer, scripts, language ports.

## 9. Plan

Done: resolver, pool, settlement, executor, lock; then the learning pool, the
resolution worker and the services of the server.

| Next | Models | Main questions | To prove |
|---|---|---|---|
| `CreReceiver` | `CreSettlementReceiver.sol`, `FlurboCreAttestation.sol` | late, repeated and stale reports against one acceptance | acceptance is final |
| `FactoredCost` elimination | `FactoredCost.sol` | the eliminated maximum equals the direct one for every table and order of a small instance | — |
| Credentials and heartbeats | `agents/credentials.mjs`, `runtime-api.mjs` | a revoked credential against a request under way | — |
| Captures and alarm | `settlement-persistence.mjs`, `settlement-alarm.mjs` | merging of overlapping runs | — |
| Executor, continued | windows and loss limit of `policy.ts`, `report` | a window forgets an entry that is still open; a report repeated or refused | — |

An abstract specification worth stating next is "one action, one transaction",
which both the executor and the worker should implement.

## 10. Running it

`tlc -config X.cfg M` for each run of `PROJECT.json`, and `tlapm M.tla` for each
proof module. Each property is paired there with a mutant of the definition it
depends on ("mutants").
