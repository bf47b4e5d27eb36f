# A TLA+ model of Polaris

Polaris lets a shopper pay a merchant with credit. In its main product the shopper locks tokenized
shares in `PolarisEngine`, the merchant is paid at once out of `LiquidityPool`, and the shares come
back on repayment, or are sold only as far as the debt requires. An older product, the unsecured
credit line (`PolarisLoanEngine`), lends against a repayment score and is collected in instalments by
an off-chain keeper, which also charges subscriptions and pays merchants out. The same product exists
as a Solana program with a keeper of its own. This directory models the parts of all of these where
order, failure or arithmetic can go wrong, checks them with TLC on small instances, and proves the
central results with TLAPS.

Paths below are relative to the repository; contracts are in `packages/contracts/contracts/`, the
off-chain keeper's jobs in `keeper/src/jobs.ts`, the Solana program in `programs/polaris/src/`.

## 1. Inventory

| Component | State | Operations | What makes it correct |
|---|---|---|---|
| `polaris/PolarisEngine.sol` | loans, `lockedOf`, order index, `claimable`, lists, risk and fee parameters, sequencer feed | openLoan, repay, refund, liquidate, claim, owner's setters, `quote` | custody equals what is owed; totals equal the sums they stand for; one loan per order; exits always open; what is refused can be claimed; no seizure early or beyond debt plus bonus |
| `polaris/LiquidityPool.sol` | balance, `outstanding`, `earned`, wired engine | fund, withdraw, draw, onRepaid, setEngine | cash plus principal out equals contributions plus fees |
| `polaris/StockPriceOracle.sol` | last print per stock, staleness bounds, breaker, relayers | postPrice, postPriceOverride, setters, getPrice/peek | never a stale or backward price; one post moves the mark by a bounded step |
| stock tokens, stablecoin | balances, the issuer's block list | transfer | external; what the engine must survive of them |
| sequencer uptime feed | up or down, since when | the feed's rounds | external; liquidation waits for it |
| `scripts/keeper.js` | none | sweep every 30 s | a past-due loan leaves the book |
| `services/price-relayer` | none | poll the venue, post new prints | the mark stays live while the venue is open |
| `PolarisLoanEngine.sol` | loans, `activeDebtOf`, fees, bad debt | createLoan, repay, liquidate, fund, withdrawLiquidity, sweepFees | the ladder of thresholds; debt totals; recovered plus bad debt equals what was owed |
| `ScoreManager.sol`, `CollateralVault.sol`, `MerchantRegistry.sol` | scores; locked and seized collateral; merchants and caps | record*, lock/withdraw/seize, register/setActive | limits respected; collateral not released under debt, not seized twice |
| `PolarisPayments.sol` | payments by id, plans, subscriptions | pay, createPlan, deactivatePlan, subscribe, chargeDue, cancel | one payment per order; one charge per period; lapse after three misses; a charge that is due is not stuck |
| `BatchSettlement.sol` | executed batch ids, balance | settleBatch, fund, withdraw | a batch is paid once or not at all |
| `packages/keeperhub`, `keeper/src` | idempotency keys, what the relay remembers of each, the dunning ladder | collection, liquidation, subscription and settlement jobs | an instalment is charged once and paid out once in spite of timeouts, retries and crashes, and nothing due waits for ever |
| `packages/db` | loan book, settlement marks, receipts, indexed events | recordAttempt, markCandidate, chain sync, pendingSettlements, markSettled | the book ends as the chain does whatever was read before it was written |
| Solana program | config, merchant, vault, profile, loans, plan, subscription, one token delegation per wallet | 20-odd instructions, `instructions/*.rs` | one delegation backs loans and subscription together; collections keep to the schedule; the score is the record; the books balance |
| Solana keeper (`keeper-solana`) | none between passes | watch: collect, charge, liquidate | a loan past its grace is brought up to date or cleared |
| underwriting, gateway, MCP, SDKs, webhooks, front ends | none of the protocol's | | not modelled (section 6) |

How they interact. The engine calls the oracle (`getPrice`, `peek`), the token (`transferFrom` in,
`transfer` out) and the pool (`draw`, `onRepaid`) inside one transaction, so a call is atomic and a
failure anywhere reverts all of it, with one exception: `_deliver` catches a refused transfer and
books it in `claimable`. The owner can change parameters, re-point the oracle, the feed and the pool
between any two calls. Time passes between calls, and prints age. Off chain, keepers read the chain
and the book, wait, and act; those steps interleave with everybody else's. The X Layer keeper sends
through KeeperHub, which runs one call per idempotency key and remembers the answer for a day; it
writes what it learned into the Mongo loan book, which the chain sync also rewrites from the chain,
and the settlement job pays out what the book says was collected. On Solana the keeper holds no state:
each job reads a snapshot of the accounts and sends permissionless instructions.

What is hard: sequences of opens, exits, refused deliveries and claims that share one custody balance;
the owner acting in the middle of a loan's life; prints that go stale, gap or stop at the close; the
sequencer's outages; floors across three decimal scales; and, off chain, timeouts whose outcome is
unknown, retries under idempotency keys, a crash between a charge and its record, and concurrent
writers of one document; on Solana, several obligations drawing on one delegation. The full list, each
item at its line, is under `hazards` in `PROJECT.json`.

## 2. Modules and what they correspond to

| Module | Models |
|---|---|
| `Addresses`, `Parties` | accounts, the slot 0 of a ledger that is the owning contract's; stocks |
| `CreditMath` | the pure arithmetic of the engine, every division a floor, in the order of the source |
| `PrefixSums` | sums as recursive functions, used by the invariants on running totals |
| `StockPriceOracle` | the oracle and the chain's clock |
| `LiquidityPool` | the pool and the stablecoin's balances |
| `StockToken` | balances of shares, the issuer's block list, a charge on transfers |
| `PolarisEngine` | the engine, composed with the three above |
| `PledgedCredit` | the abstract promise of credit against shares: covered when taken, returned whole, or sold late or sunk and only as far as needed |
| `MCPolarisEngine` | its instances for TLC |
| `Stablecoin` | the credit line's stablecoin: balances and standing allowances |
| `ScoreManager`, `CollateralVault`, `MerchantRegistry` | the contracts of these names |
| `PolarisLoanEngine` | the credit line, composed with the four above |
| `MCPolarisLoanEngine` | its instances for TLC |
| `Quote`, `MCQuote` | the checkout's question, `quote()`, against what `openLoan` and the health factor will say |
| `InstalmentCredit` | the abstract promise of an instalment plan: debt, shares, dates, and no default unless behind |
| `KeeperHub` | the relay as its client sees it: keys, records that lapse, check-and-execute, kinds of failure |
| `ChainLoan` | one plan of `PolarisLoanEngine` as the programs around the chain see it |
| `LoanBook` | the Mongo document, `recordAttempt`'s read and guarded write, the chain sync's two reads and its overwrite |
| `Collection`, `MCCollection` | the collection and liquidation jobs over the three above, with crashes |
| `SubscriptionSchedule` | the renewal rule that `PolarisPayments.sol` and the Solana program share |
| `Payments`, `Settlement` | `PolarisPayments.sol`; `BatchSettlement.sol` with the settlement marks in the book |
| `Payouts`, `MCPayouts` | the subscription and settlement jobs over `KeeperHub` and those two |
| `SolanaCluster` | the clock, the wallet's token account, which it may close and open again, and its delegation |
| `SolanaProtocol` | config, merchant, the liquidity vault |
| `SolanaCredit`, `SolanaBilling` | loans, collateral, score and underwriting; direct payments, plans and subscriptions |
| `SolanaProgram` | the program composed, and its properties |
| `SolanaKeeper`, `MCSolana` | the watch loop over the program, and its instances |
| `PrefixSumTheorems`, `CreditMathTheorems` | lemmas about sums and about the arithmetic |
| `PolarisEngineProofs`, `QuoteProofs` | the theorems about the stock-credit system, with the refinement of `PledgedCredit` |
| `PolarisLoanEngineProofs` | the books of the credit line, the theorems that rest on them, and the refinement of `InstalmentCredit` |
| `CollectionProofs`, `PayoutsProofs` | the theorems about the keeper's collection and settlement jobs |
| `SolanaProofs` | the theorems about the Solana program: books, schedule, score, delegation, subscription, and the refinement of `InstalmentCredit` |

A transaction is one step. The action's guard is the conjunction of the code's reverts; a revert is
the absence of a step. `OpenLoan` is the whole of `openLoan`: the checks, the loan, the order key, the
locked total, the transfer in with the balance measured around it, and the pool's `draw`. `Repay` and
`Refund` share `CloseLoan` (status, release, payment, `onRepaid`) and `Deliver`. `Liquidate` seizes on
one ledger and delivers the rest on the ledger that leaves; it asks the view `IsLiquidatable`, which looks
for a live print (`LivePrint`), and then makes the source's own test of the print again
(`SaleablePrint`). Loan ids are one larger than the
contract's, which is the number the contract itself keeps in `_orderToLoan`.

In the credit line, allowances are state, because the product rests on them: `Approve`, `Transfer` and
`Lock` are the borrower's own steps and may come between any two of the keeper's. `Repay` is the whole
of `repay`: the cap at what remains, the draw, the debt, the fee on the interest in the payment, the
instalments earned (`InstallmentsEarned` is where the source's walk up the ladder stops), the score
and the closing. `Liquidate` takes from the allowance, then from the vault, books the rest as bad debt
and records the default. The stablecoin delivers what is sent, so measuring the balance around a
transfer gives the amount asked for; `type(uint256).max` is the constant `Unlimited`. The engine's
`gracePeriod` is a constant because the constructor fixes it. `originators` is any set of accounts;
only whether it is empty matters to `CreateLoan`.

Off chain, each database command, each request and each answer is a step, and the process may stop
before any of them (`Crash`). In `Collection` a tick is the shortest back-off of the ladder (hours); a
pass, an execution and a sync take minutes and end within the tick they began in unless the keeper
crashes. `Key` is the source's choice between the old attempt and the next. A request may be spoilt
before the hub sees the call (`Unreachable`) or after it accepted it (`Unanswered`: a poll that times out
or is refused, an answer without an execution, a receipt that cannot be stored), under whatever kind the
client gives it (`FaultKinds`; `PollFaults` says which of them an accepted call may get). `Failed` is
`recordAttempt` on a failure with the ladder's next rung, and `MarkLiquidationCandidate` the write that
follows past the last one; `AnsweredPaid` and `WritePaid` are its read and its write on a success, the
guarded write and the plain one that follows where the guard does not hold taken together. The chain
sync reads the chain (`SyncRead`), reads the document (`SyncRecall`) and overwrites it (`SyncWrite`), and
may be cut short at either point. A record of the hub outlives its call by `Ttl` ticks. In `Payouts` the subscription's times are relative to now, so the schedule needs no
clock: `Later` moves the due time closer and, once past the charge window, wraps by whole periods,
because a skip from either leads to the same boundary; `Kept` drops the two fields nobody reads. A
batch is named by amount and the first few orders (`NamedOrders`), as `settlements.ts` names it. Either optional contract may be
absent from a deployment (`rails`), and then its job does nothing, as in `cli.ts`.

The Solana program is modelled for one wallet, which is both borrower and subscriber: that is where
loans, subscription and transfers meet on one delegation. An instruction is one step with its whole
account validation as guard, that the token account is open included (`Loads`); its owner may close it
when it is empty, which ends the delegation, and open it again. The keeper's jobs (`NextJob`, `Execute`) read a batch when they start and
work through it in any order; a refused transaction costs its turn only.

State that exists only in the model: in `Collection` `charged`, `unsure` and `excused`, in `Payouts`
`covers` and `lostSight` (which charges went through, and what the keeper could not know), in the Solana
modules `flows`; `supplied` and `swept` in the credit line (liquidity put in net of
what was taken out, and fees swept), `contributed` in the pool (what was funded minus withdrawn, so
that "the pool is whole" can be said), `skimming` (the tokens that charge for transfers), and `now`.

The owner's `SetOracle` follows `scripts/upgrade-oracle.js`: a fresh oracle with the defaults, seeded
with the current print of some of the stocks (the script's comment says why an empty one is
dangerous, so an unseeded swap is also tried).

Operators whose comment says "A slip" are not part of the model. They are the plausible mistakes the
properties are tried against (`mutants` in `PROJECT.json`): each stands before the definition it is a
mutation of, and TLC must find the property violated when it takes that definition's place.

Left out: ERC-20 allowances of the caller (given in the caller's own transaction), transfers of shares
to the engine that no call asked for, `transferOwnership`, reentrancy (every entry point is
`nonReentrant`), event logs, the `source` and `reason` strings, and 256-bit overflow (checked
arithmetic reverts, and amounts are far below it).

## 3. Runs

| Run | Instance | Shows | States |
|---|---|---|---|
| `engine_core` | one shopper, two order references, three prices, two days, a borrower the issuer may block | books agree, what is owed can be claimed, seizures are proportionate and never early without a fall, the abstract promise of a pledge is kept | 67 098 |
| `engine_admin` | one loan, all the owner's settings, oracle swaps, a feed with outages, blocked parties, a token that charges | exits, clearability of what the view promises, custody | 319 440 |
| `engine_live` | one loan, fair keeper, relayer and blocks | past-due loans leave the book | 5 560 |
| `engine_shortfall` | an underwater loan (expected violation) | finding 1 | |
| `quote` | 240 initial combinations of shares, tenor, price and parameters | what `quote()` returns is accepted, and is within three units of the most that would be | |
| `credit_line` | one shopper, up to two plans of two instalments, three levels of approval, partial and full payments, transfers, collateral, the owner's settings | debts, instalments, scores, fees and cash stay exact; approvals keep backing; a default can be cleared, loss last; the abstract promise is kept | 120 664 |
| `collection` | one plan of two instalments through KeeperHub, one fault of any kind or crash, a chain sync, a borrower who pays and tops up | when a second charge is possible; the book ends as the chain does; an overdue plan is resolved | 355 562 |
| `collection_keys` | the same with records that last (expected violation) | finding 2 | |
| `payouts` | a subscription on one rail, two instalments to pay out on the other, one fault or crash, a sync that drops marks | when an instalment can be paid out twice; nothing due waits for ever; no deadlock | 114 276 |
| `solana` | one wallet, two loans, one subscription, a keeper with one outage | schedule, score, periods, backing, books, the abstract promise; overdue loans are resolved while the pinned account is open | 78 734 |
| `solana_closed` | the same, with no such condition (expected violation) | finding 3 | |
| `solana_attest` | a wallet with a great many transactions (expected violation) | finding 4 | |

Scales are small so that every division has a remainder somewhere: a share is 10 units, a dollar 10
units of stablecoin, the health factor's one is 100. At these scales the deployed parameters (35 %,
50 %, 5 %, 1 %) still give loans near the ceiling (345 + fee of 350), over- and underwater
liquidations, and partial seizures.

Bounds. `MaxTime` caps the clock: two or three units cover opening, the due date, the instant after
it, both staleness bounds and the grace period, all chosen as one or two units. `MaxLoans` is two in
`engine_core`, because the hazards of custody and totals need one loan to close while another of the
same stock is open; one elsewhere. `StallBy` makes outages start and end early enough for their
consequences to be seen. `GraceChoices` has a grace of none, of one unit (so that the last instant of it
and the one after are both reached with a feed plugged in) and one the setter refuses. In `engine_admin` the constraint `FewChanges` keeps at most one group of the
owner's settings and one act of the issuer away from the deployment at a time; which group it is
ranges over all of them. No symmetry is used.

In the credit line a year is four units of time and the shortest interval one, so that a plan of two
instalments carries interest (19 on 390, 4 on 90) with a remainder, the ladder has an odd total to
round up (409), and the fee on each part is floored below the fee on the whole. Three units of time
reach the first due date, the end of its grace and the instant after. The first plan leaves 91 of the
score's 500: the second one (94 with interest) needs collateral, and 450 approves one plan but not
both. The constraint `OneChange` keeps one group of the owner's settings at a time away from the
deployment.

In `collection` the plan is 2 + 1 units over two ticks, so the ladder rounds; the dunning ladder has
three rungs (0, 1 and 2 ticks, as the source's grow), a record of the hub lapses after two ticks, so a
retry can meet a record that is fresh, ageing or gone; opening funds pay one instalment and one top-up
the rest, so a charge can be short, then possible. The top-up arrives in the tick `Paydays` names, where
the second instalment falls due; in `collection_keys` at any time. One fault or crash is allowed:
what `ChargedAgainOnlyIf` says is exactly how little it takes. `payouts` checks the two contracts in turn:
the jobs share the pass and the hub but no data. Its periods are one and three ticks around a hub
record of two and a charge window of two, so a charge can be due while yesterday's record still
answers, after it, and past the window; its two unit instalments of two orders can be paid out apart
or together, and a payout names one order (`NamedOrders`) of the two, so that a batch of both and a
batch of one differ by their amounts only. In `solana` the constraint `OneTurn` has the deployment complete before the clock starts
and lets at most one turn from the plain course be open at a time: a second loan, a subscription, an
attestation, locked collateral, a revoked delegation, an outage and so on. Some close again (a
delegation is renewed, a merchant switched back on) and leave what happened meanwhile to the next; two
that stay, a second loan and a subscription for instance, are not explored together. What concerns both
on one delegation (`BackedUnlessRenewed`) is proved for any number of loans. 315 units of wealth pay one loan of 201 and its interest but not two, and
425 delegated backs two loans but not a renewal on top.

Fairness. In `engine_live`: `NextBlock`, blocks keep coming; `CarryLivePrint`, the relayer's loop
(`services/price-relayer/index.js`, `main`) posts while the venue trades, and venues reopen (which
supposes that the venue's price passes the breaker: after a larger gap somebody has to override it);
`SequencerStatus(TRUE)`, outages end; `Liquidate`, the keeper sweeps every loan each 30 seconds and its
script sends whatever is liquidatable, with strong fairness because a loan may stop being
liquidatable between sweeps and become so again. The liquidator of the instance holds enough for the
debt. In `collection` and `payouts`: `KeeperNext`, the process is restarted and its loop goes on;
`Execute`, the hub finishes what it accepted; `Tick`, time passes, strongly fair because a tick waits
for the end of passes, executions and syncs; and `GoOnSync`, a sync that was begun goes on. Nobody is
bound to begin one: the sync is an operator's command (`db:sync`) no job runs. The two liveness
properties say themselves what they need of it. `BookCatchesUp` claims agreement with the chain where
the sync is run again and again (`SyncedAgain`), and only there: without it the book would never learn of
a payment the borrower made directly. `DefaultIsResolved` claims that an overdue plan is resolved where
syncs keep apart from the keeper's passes and none is ever run, or one after another is. Both conditions
are needed, TLC shows. A sync that straddles the write of a payment, or a last sync before a pass that
replays an old charge's record, can leave an unpaid instalment marked paid, which nobody then collects;
and syncs that overlap every pass can take the candidate mark away each time. In `solana`: `KeeperNext`, the
watch loop runs pass after pass; nothing is assumed of the cluster or of the wallet, so
`OverdueIsResolved` promises a loan's resolution only up to its pinned account being closed (finding 3). Faults,
crashes, borrowers and owners are never fair. Two liveness results are checked under a state
constraint (`solana`, by `OneTurn`) or a bound on faults, which is what they claim: with endlessly many
lost answers nothing has to happen.

Deadlock is checked in `payouts`. Elsewhere the clock is bounded and a finished instance may stop.

That a subscription does not stay due (`IsChargeDue ~> ~IsChargeDue`) is not true and not claimed:
a period shorter than the hub's record is behind for ever, since the constant key lets one charge
through per record. `NothingDueWaits` claims what does hold, that charging goes on.

## 4. Findings

1. **The pool never wears a shortfall.** The comment on `liquidate()` (`PolarisEngine.sol:518-519`)
   and `docs/STOCK-CREDIT.md:53-54` say it does; line 552 charges the liquidator the whole debt. The
   pool is always whole (theorem `PoolStaysWhole`), and a loan worth less than its debt is cleared
   only by somebody willing to lose money.
2. **A second charge after one the keeper lost sight of.** `keeper/src/jobs.ts:80-86` says a charge that may
   still be settling is retried under its own key, and that the key advances only on a definite failure;
   `errors.ts:71-73` says that after a definite one nothing was broadcast. But what is classified is the
   last request, not the charge. Once a charge is accepted, a status poll answered 429, 403 or 404, an
   answer without an `executionId` (`client.ts:395-399`) or a receipt that cannot be stored
   (`polaris.ts:225-229`) counts as definite, and the next attempt charges under a new key while the first
   charge goes through; that is the run's counterexample. With `PollFaults = {"indefinite"}` TLC finds a
   longer one: line 88 looks at the latest failure only, so a crash or a lost answer followed by a
   definite failure (the simulation refuses because the first charge emptied the wallet) moves the key
   too. Two unanswered tries in a row also do: the second reuses key 1 but counts as an attempt, and the
   third asks for key 2. `ChargedAgainOnlyIf` says what it takes.
3. **A closed account makes a loan un-liquidatable.** `instructions/loan.rs:555-557` and
   `token_ops.rs:57-58` cap the recovery so that a shortfall cannot revert the liquidation for ever. But
   `collect` and `liquidate` load the pinned token account (`loan.rs:334-339`, `487-492`), and its owner
   may empty and close it: both instructions are then refused before they run, the loan stays active
   with its collateral locked, and the keeper retries for as long as the account stays closed.
4. **Ample evidence can wrap.** `programs/polaris/src/state.rs:241` and the test at 423-424 say no input
   wraps; line 253 casts to `u16` before it caps, and 25 x 65 536 transactions earn nothing.

Smaller things met while reading, which no run is about or which the runs already allow for:

- `scripts/verify-invariants.js:48-49` requires the engine's share balance to equal the shares of the
  active loans and calls anything else orphaned; a delivery the issuer refused breaks that until it is
  claimed. What always holds is `CustodyIsExact` (a theorem).
- Two equal payouts of one order, or of more than five orders with the first five the same, get one batch
  id (`packages/db/src/settlements.ts:10-12`, `:86`); the second is refused for ever once the first is
  paid. The two instalments of the run belong to two orders.
- `sync-chain.ts:114-116` says a re-sync never wipes a retry schedule; it does wipe what the keeper
  recorded between the sync's read of the document and its write.
- The chain sync drops `settledAt` (`packages/db/src/sync-chain.ts:98-122`, against
  `settlements.ts:56`): what was paid out is pending again. `PaidOutAgainOnlyIf` names this.
- `recordAttempt` writes the book's status even if its guarded write of the instalment fails, and its
  total can run ahead of the chain until the next sync (`packages/db/src/loanbook.ts:59-60`).
  `BookCatchesUp` says that it does not last.
- A full collection after a partial one of the same attempt reuses its key (`jobs.ts:165-167`), and the
  close-out's key never changes (`jobs.ts:375-376`).
- Faults on the operator's side use up attempts of the ladder (`packages/keeperhub/src/dunning.ts:48-52`).
- `markSettled` does not filter by chain; `cli.ts` matches a settlement's receipts by a substring.
- `keeper-solana` lowers a count of failures it never raised (`jobs.ts:282` there): its report only.

## 5. What is proved

All theorems hold for every number of accounts, stocks and loans, every scale and every parameter the
constants' assumptions admit. The bounds `MaxTime`, `MaxLoans` and `StallBy` are arbitrary naturals.

`PolarisEngineProofs`. The invariants the runs check are not inductive one by one: that `liquidate`
may subtract from `lockedOf` needs `lockedOf` to be a sum that includes the loan; that `claim` and
`_deliver` find the shares needs custody; that `onRepaid`'s cap is idle needs `outstanding` to be a
sum. `IInv == TypeOK /\ Books` puts them together: types; `lockedOf`, `outstanding` and the engine's
balance equal to the sums over loans and claims; and the pool's equation. `BooksBalance` proves it
invariant, one lemma per action. From it follow `TypeCorrect`,
`LockedIsExact`, `CustodyIsAlwaysExact`, `OutstandingIsExact`, `TotalsAlwaysMatch`, `PoolStaysWhole` and
`OneLoanForEachOrder`, and the action properties `FreshLoansAreSafe`, `ExitsMakeWhole` and
`SeizuresAreProportionate`. The last two assume `SkimChoices = {}`, that no accepted token charges for
transfers: with such a token the borrower receives what the token lets through.
`EarlySeizuresNeedAFall` assumes `RiskChoices = {}`, that the owner leaves the risk parameters alone: an active
loan keeps being one that was written within the ceiling (`WrittenSafely`), and health climbs with the
price (`HealthClimbs`), so a seizure before the due date needs a lower price than the loan's own.
`OnePostNeverSeizes` assumes `RoomIsLeft`: every ceiling the owner may set is at most 35 %, every
threshold at least 50 %, every breaker at most 20 %, which is what the contracts are deployed with. A
loan is then written within 35 % of its collateral (`RoomInv`); the breaker, whose own floor gives away
a hundredth, lets a print fall to no less than 79.99 % (`BreakerBounds`); and what is left covers the
debt at 50 % to the last unit of every floor, down to a debt of one unit (`OneMoveIsCovered`). Outside
that room it need not hold: with a ceiling of 45 % a fall of 20 % does pass the threshold.

The ways out. `ExitAlwaysOpen` and `LiquidatableIsClearable` say that a call is `ENABLED`, which the
prover does not know, and so does `ClaimAlwaysPays`. `RepayIsNeverRefused`, `LiquidatableCanBeCleared` and
`ClaimIsNeverRefused` say it in its own terms: from any state of `IInv` in which the conditions hold, the
state after the call is written down (`AfterRepay`, `AfterLiquidate`, `AfterClaim`), it lies in the typed
state space (so no subtraction on the way underflows) and the step to it is a `Repay`, a `Liquidate` or a
`Claim` of the engine. The second includes that the view's test of the print and `liquidate`'s own
agree. All need the books: that
the engine can hand over the shares of this loan is custody of all the others being exact, and that the
locked total and the pool's `outstanding` can be lowered is their being sums that include it. The
conditions are those of the checked invariants: the pool is wired, the payer holds the debt, and the
issuer serves the liquidator and the engine (the borrower may be blocked).

`EngineKeepsPledge`: engine, pool and stock token implement `PledgedCredit`, in which there is no
custody to share, no delivery to refuse, no running total and no rounding. A loan is mapped to a pledge;
an account's estate is the shares it holds plus those it may claim; the lender's income is the pool's
money and what is out, less what was contributed. `OpenLoan` is `Lend`, `Repay` and `Refund` are
`Return`, `Liquidate` is `Sell`; a print is `Quote`, a setter `Retune`, a block `Elapse`, and everything
else, `Claim` included, stutters. Four links carry it. The abstract spec compares debt with worth by
cross-multiplication, so every floor of the engine's arithmetic is bounded: what the ceiling accepts is
covered (`AllowedIsCovered`), what the health factor rejects is sunk to within one unit of money
(`UnhealthyIsSunk`), and what is seized is fair. The health factor divides by the debt, so every loan
owes something (`OwesSomething`, invariant with `IInv`). A delivery the issuer refuses is as good as
one made, because the estate counts the claim (`DeliverCredits`). And the income grows by exactly the
fee because the pool is whole before and after (`IncomeIsEarned`). Like `ExitsMakeWhole`, which says the
same of a return from inside the contracts, it assumes `SkimChoices = {}`.

`QuoteProofs`. `QuotedIsAccepted`: what `quote()` returns, `openLoan` accepts, by the property of the
walk back. `AcceptedStartsHealthy`: ceiling below threshold survives all the floors
(`CeilingBelowThreshold`, `WithinAllowedIsHealthy` in `CreditMathTheorems`). `QuotedIsLargest`: no
principal three units or more above the quote would be accepted. The guess loses less than that to
its floors (`GuessIsClose`), the walk back passes over nothing that fits (`WalkPassesNothing`), and
what fits stays fitting when made smaller (`SmallerFits`).

`PolarisLoanEngineProofs`. Again the properties need one another: `repay` and `liquidate` may subtract
from `activeDebtOf` because it is a sum that includes the loan, and the vault can pay what is seized
because its balance is the sum of what it keeps. `IInv` adds to types, `DebtsAreExact` and
`LineBooksBalance` that a loan owes something and never brings in more than it is owed
(`SoundLoan`). `LineInvariant` proves it, one lemma per action; `LineTypeCorrect`,
`DebtsAreAlwaysExact` and `LineBooksAlwaysBalance` follow.

On top of the books, `InstallmentsAlwaysMatchMoney` is inductive together with `IInv`: the walk up
the ladder stops by the least-number principle (`WalkStops`), its first step costs something and no
step costs more than the debt (`ThresholdBounds`). `ScoresFollowInstallments` needs it: more money
never takes an instalment back (`ThresholdClimbs`, `InstallmentsClimb`), so whenever a payment is
scored the sum of instalments has grown. `FeesAlwaysComeFromInterest` rests on two floors adding up to
no more than one (`FloorsAdd`). `CollateralAlwaysStays`, `ApprovalAlwaysBacks`, `LossIsAlwaysLast` and
`FeesStayCovered` are action properties, from what a repayment and a liquidation draw on
(`RepayMoves`, `LiquidationMoves`). `LossIsAlwaysLast` uses `AmountAssumption`, that no debt a checkout
may ask for is larger than a `uint256`: an allowance of `type(uint256).max` is never spent, and would
otherwise outlive a debt above it.

`EngineKeepsInstalmentPromise`, in the same module: the credit line implements
`InstalmentCredit`, where default is a matter of money and time alone, with no counter and no
rounding. Initial states map to initial states; creation is `Open`, a repayment `Pay`, a liquidation
`Default`, a new time `Elapse`, everything else stutters. The step that matters is `Liquidate`: the
engine looks at its counter of instalments, and that counter's due date being past must mean that less
than that share of the debt is in, which is what the ladder's rounding up gives
(`InstallmentsAlwaysMatchMoney`).

`DefaultCanBeCleared` is the content of `DefaultIsClearable`, stated as for the stock engine: from any
state of `IInv` in which `checkLiquidatable` says yes and the engine is wired to score and vault, the
state after `liquidate` exists in the typed state space and `Liquidate` leads to it, whatever the
borrower did with money, allowance and collateral.

`PrefixSumTheorems`: a recursive sum exists and is unique, changes by the difference when one entry
changes, extends by the last entry, bounds each entry. `CreditMathTheorems`: quotients and products
stay natural, the seizure is bounded by the loan and worth no more than debt plus bonus.

`CollectionProofs`. `ChargedAgainOnlyWhenExcused`: for every plan, ladder, life of the hub's records and
number of faults, a second charge of an instalment needs one of the three things `ChargedAgainOnlyIf`
names. The invariant follows the key. Of an instalment not yet excused, the hub has at most one charge
that is open or went through, and it is under the key the next attempt would use (`Retried`); so that
attempt meets the first one's record. Once the book says paid and no pass holds the instalment any
more, what there is is one charge at most (`Settled`). A pass works on a copy of the ladder, so the
invariant also says that copy and book agree while both matter (`Kept`); and a sync holds another:
what it recalled in dunning is what the book still says, or lies behind an attempt recorded since, and
then writing it back puts the ladder back, which is one of the three (`Recalled`). `CollectionTypes` is the type
invariant with what it rests on (`Basis`): a pass never takes up an instalment at the bound of its
attempts, and the rest a failure asks for is at most the ladder's longest. The proof corrected the
model's history. With one fault that the client calls indefinite, the failure recorded on top of an open charge is always
the definite one of finding 2; with two, a second unanswered try moves the key just as well (`KeyMoves`, `OnTop`),
which the runs, allowing one fault, do not reach. It holds for every `PollFaults`, and uses
`LadderAssumption` (at least one attempt, at least one rung) and `KeysAssumption` (the hub's keys are
the instalments' and the liquidation's).

`PayoutsProofs`. `PaidOutOnceInSight`: an instalment is in two executed batches only if the keeper lost
sight of the first. A batch counts from the moment the hub runs it (`Committed`): its instalments are
marked in the book or in the hands of the pass that sent it, and no two of them share an instalment
(`Watched`). What is sent is never marked already (`NothingMarkedIsSent`), and the hub's record does
not contradict the contract (`HubAgrees`). It holds for any number of instalments, orders, amounts and
faults, and uses `PayoutsAssumption` (a batch's key is no subscription's) and `SettlementAssumption`.

`SolanaProofs`. `ChargesAlwaysFollow`: a subscriber never pays for more periods than have begun, by
an invariant (`BillingInv`) that ties the count of charges to the distance of the next due date, which
a skip only widens. `DelegationStaysBacked`: once the delegation covers what the wallet owes, only the
wallet's own signature or a renewal can leave it short; a payment takes as much off the debt as off
the delegation (`PaymentSettles`), which rests on types (`WalletInv`) and on the loans in the keeper's
batch existing (`BatchInv`).

`BooksAlwaysAgree` is the program's `Sound`. Made inductive (`SoundInv`) it says that every loan is
sound by itself (`SoundLoan`: never repaid beyond what is owed, its counter neither ahead of nor behind
its money), that the wallet's free, locked and other money never exceeds what it began with, and that
debt, booked loss and vault are sums over the loans (`TotalMoves`: a sum moves by what one loan moves).
On it rest the next three. `CollectionNeverRunsAhead`: the source's walk over the schedule stops at the
last instalment due (`DueByNowIs`), and the thresholds climb, so a collection never passes what is due.
`ScoreAlwaysTheRecord`: each instruction moves the score by what it adds to the record
(`ScoreFollows`), and the record grows by no more than the instalments completed (`RecordInv`). The
attempt to prove it showed the formula to be false where the score reaches the top of its band and
points are dropped, so the exact equation is claimed only below it (`opening + earned <= MaxScore`), as
it was only above the bottom; no run had come so far. `ProgramKeepsInstalmentPromise`: the program
implements `InstalmentCredit`. As for the credit line, the step that matters is the liquidation, and
the counter's due date being past means that less than that share of the debt is in
(`ThresholdIsAFraction`). No theorem here assumes anything of the keeper: its batches are just one way
of sending the permissionless instructions. Assumed of the constants are `ClusterAssumption`,
`ProtocolAssumption`, `CreditAssumption` and `BillingAssumption`: amounts and times are naturals, scales
and intervals are not zero.

Only model-checked: the liveness properties `PastDueIsCleared`, `DefaultIsResolved`, `BookCatchesUp`,
`NothingDueWaits` and `OverdueIsResolved`, because fairness is beyond the prover. `ExitAlwaysOpen`,
`LiquidatableIsClearable`, `ClaimAlwaysPays` and `DefaultIsClearable` stay with TLC as formulas, since they
speak of `ENABLED`; for the engines' `repay`, `liquidate` and `claim` what they say is proved for every
value of the constants, by the four theorems above. Every other property of the passing runs is stated by a theorem.

A note on notation: two updates of one function that may fall on the same place (a transfer to oneself,
a liquidator who is also the borrower) are written one after the other, `[[f EXCEPT ![a] = ...] EXCEPT
![b] = ...]` or through `Given`. TLC reads the second `@` of a single `EXCEPT` as the value after the first
update, the prover as the value before both; written this way they agree.

## 6. What is not modelled

Most of the repository's lines are screens: the web and mobile front ends (`apps/core`,
`apps/merchant`, `landing`, `merchant-app`, `merchant-web`, `mobile`, `shopping`), the checkout
SDKs, the MCP server, the merchant gateway, webhooks and the scripts that seed and demonstrate. They
read protocol state and submit the calls modelled here; they keep none of the protocol's own state,
and their correctness is input, output and presentation. A model of them would be a model of their
libraries. The TypeScript underwriting package sums public signals into a number. The indexer copies
events for screens, and reconciliation and health are reports nobody acts on. For these the list of
components has the status `not_modelled`, or says so in the note of the component they belong to.

Left out of what is modelled:

- Keeper jobs: the partial collection (no caller passes the balance it needs), the close-out of
  rounding residues, notifications, receipts and the file-backed book.
- KeeperHub's client: its retries of one request collapse into one submission under its key.
- `PolarisPayments`: the split of a payment into fee and net and its setters (both halves leave the
  payer together). One plan and one subscriber, since nothing is shared between two subscriptions but
  the subscriber's money, which `Wallet` may take away at any time.
- `BatchSettlement`: `setSettler` and batches of several legs, which nothing sends. The merchant's
  running total in the database is read by no decision.
- Solana: payout and treasury accounts and counters no instruction reads, `set_underwriter` and
  `update_payout`, the fee split of direct payments, the freshness window of evidence, `u64` saturation,
  and the keeper's dunning, which only logs. The mint's authority may freeze a token account, with the effect
  of finding 3; that is left out, as is the choice of a token account other than the pinned one.
- The price relayer's polling and what it skips: it only makes the print go stale, which the engine's
  runs cover. The liquidation script's RPC failures and funding.
- `MerchantRegistry`'s `updatePayoutAddress` and `recordSettlement`, which write fields no contract reads.
- Tokens: minting, the faucet, and allowances on the stock side.

Four hazards have no property: the un-wired pool (`LiquidityPool.sol:55`, an owner's choice that
`ExitAlwaysOpen` and `LiquidatableIsClearable` exclude), the one-off report of `verify-invariants.js:25`, the indexer's copies
(`indexer.ts:59`), and the skipped closing print (`price-relayer/index.js:81`). Each says why in its
note.
