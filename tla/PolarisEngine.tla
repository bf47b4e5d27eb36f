---------------------------- MODULE PolarisEngine ----------------------------
(***************************************************************************)
(* polaris/PolarisEngine.sol, together with the pool, the oracle and the   *)
(* token it calls: lock shares, pay the merchant, repay or be liquidated.  *)
(* One action per external function; a transaction is atomic, so a call is *)
(* one step and a revert is the absence of one.  Loan ids are positions in *)
(* `loans`, one more than in the contract: the number _orderToLoan keeps.  *)
(***************************************************************************)
EXTENDS StockPriceOracle, LiquidityPool, StockToken, CreditMath, PrefixSums,
        Sequences

CONSTANTS
    MinTenor, MaxTenor,         \* 7 and 14 days
    DefaultRisk, DefaultFees,   \* the values the contract is deployed with
    Borrowers, Merchants, Liquidators,  \* the accounts seen in each role
    OrderRefs,                  \* merchants' own references
    ShareAmounts, BorrowAmounts, Tenors,    \* what a shopper may ask for
    StockToggles, MerchantToggles,          \* what the owner may list or delist
    RiskChoices, FeeChoices, GraceChoices,  \* what the owner may set
    GateChoices, FeedChoices,   \* subsets of BOOLEAN
    OracleSwaps,                \* the stocks a replacement oracle is seeded with
    MaxGrace,                   \* 12 hours
    DefaultGrace,               \* 1 hour
    StallBy,                    \* bound: outages start and end before this time
    MaxLoans                    \* bound on the number of loans

ASSUME EngineAssumption ==
    /\ MinTenor \in Nat /\ MaxTenor \in Nat
    /\ DefaultRisk \in RiskParams /\ ValidRisk(DefaultRisk)
    /\ DefaultFees \in FeeParams /\ ValidFees(DefaultFees)
    /\ Borrowers \subseteq Accounts /\ Merchants \subseteq Accounts
    /\ Liquidators \subseteq Accounts
    /\ ShareAmounts \subseteq Nat /\ BorrowAmounts \subseteq Nat /\ Tenors \subseteq Nat
    /\ StockToggles \subseteq Stocks /\ MerchantToggles \subseteq Merchants
    /\ RiskChoices \subseteq RiskParams /\ FeeChoices \subseteq FeeParams
    /\ GraceChoices \subseteq Nat /\ MaxGrace \in Nat /\ DefaultGrace \in Nat
    /\ GateChoices \subseteq BOOLEAN /\ FeedChoices \subseteq BOOLEAN
    /\ OracleSwaps \subseteq SUBSET Stocks
    /\ StallBy \in Nat
    /\ MaxLoans \in Nat

VARIABLES
    loans,              \* the sequence of every loan ever written
    lockedOf,           \* stock -> shares held against active loans
    orderToLoan,        \* <<merchant, orderRef, borrower>> -> loan, 0 for none
    claimable,          \* account -> stock -> shares that could not be delivered
    acceptedStocks, registeredMerchants, requireRegisteredMerchant,
    risk, fees,         \* the owner's parameters
    feedSet, gracePeriod,   \* the sequencer uptime feed, if any, and its grace
    sequencer           \* the feed's answer: [up, startedAt]

bookVars == <<loans, lockedOf, orderToLoan, claimable>>
listVars == <<acceptedStocks, registeredMerchants, requireRegisteredMerchant>>
paramVars == <<risk, fees, feedSet, gracePeriod>>
vars == <<now, oracleVars, poolVars, tokenVars, bookVars, listVars, paramVars, sequencer>>

Status == {"Active", "Repaid", "Liquidated", "Refunded"}
Loan ==
    [borrower : Accounts, merchant : Accounts, stock : Stocks,
     shares : Nat, principal : Nat, fee : Nat,
     openedAt : Nat, dueAt : Nat,
     openPrice : Nat, openedWhileClosed : BOOLEAN, status : Status]
OrderKey == Merchants \X OrderRefs \X Borrowers

BookTypeOK ==
    /\ loans \in Seq(Loan)
    /\ lockedOf \in [Stocks -> Nat]
    /\ orderToLoan \in [OrderKey -> Nat]
    /\ claimable \in [Accounts -> [Stocks -> Nat]]

ParamTypeOK ==
    /\ acceptedStocks \subseteq Stocks
    /\ registeredMerchants \subseteq Merchants
    /\ requireRegisteredMerchant \in BOOLEAN
    /\ risk \in RiskParams /\ ValidRisk(risk)
    /\ fees \in FeeParams /\ ValidFees(fees)
    /\ feedSet \in BOOLEAN /\ gracePeriod \in Nat
    /\ sequencer \in [up : BOOLEAN, startedAt : Nat]

(* Balances, totals and claims never go below zero: no subtraction of the  *)
(* engine, the pool or a token reverts where the code means it to succeed. *)
TypeOK == OracleTypeOK /\ PoolTypeOK /\ TokenTypeOK /\ BookTypeOK /\ ParamTypeOK

Init ==
    /\ OracleInit /\ PoolInit /\ TokenInit
    /\ loans = <<>>
    /\ lockedOf = [s \in Stocks |-> 0]
    /\ orderToLoan = [key \in OrderKey |-> 0]
    /\ claimable = [a \in Accounts |-> [s \in Stocks |-> 0]]
    /\ acceptedStocks = Stocks          \* deploy-polaris.js lists its stock
    /\ registeredMerchants = {}
    /\ requireRegisteredMerchant = FALSE
    /\ risk = DefaultRisk /\ fees = DefaultFees
    /\ feedSet = FALSE /\ gracePeriod = DefaultGrace
    /\ sequencer = [up |-> TRUE, startedAt |-> 0]

LoanIds == 1..Len(loans)
Debt(l) == l.principal + l.fee

-----------------------------------------------------------------------------
(* The owner's calls.                                                      *)

SetAcceptedStock(s, accepted) ==
    /\ acceptedStocks' = IF accepted THEN acceptedStocks \cup {s} ELSE acceptedStocks \ {s}
    /\ UNCHANGED <<registeredMerchants, requireRegisteredMerchant, paramVars>>

SetMerchant(m, registered) ==
    /\ registeredMerchants' =
          IF registered THEN registeredMerchants \cup {m} ELSE registeredMerchants \ {m}
    /\ UNCHANGED <<acceptedStocks, requireRegisteredMerchant, paramVars>>

SetMerchantGate(required) ==
    /\ requireRegisteredMerchant' = required
    /\ UNCHANGED <<acceptedStocks, registeredMerchants, paramVars>>

SetRiskParams(new) ==
    /\ ValidRisk(new)
    /\ risk' = new
    /\ UNCHANGED <<listVars, fees, feedSet, gracePeriod>>

SetFees(new) ==
    /\ ValidFees(new)
    /\ fees' = new
    /\ UNCHANGED <<listVars, risk, feedSet, gracePeriod>>

SetSequencerUptimeFeed(set, grace) ==
    /\ grace <= MaxGrace
    /\ feedSet' = set /\ gracePeriod' = grace
    /\ UNCHANGED <<listVars, risk, fees>>

EngineAdmin ==
    /\ \/ \E s \in StockToggles, v \in BOOLEAN : SetAcceptedStock(s, v)
       \/ \E m \in MerchantToggles, v \in BOOLEAN : SetMerchant(m, v)
       \/ \E v \in GateChoices : SetMerchantGate(v)
       \/ \E new \in RiskChoices : SetRiskParams(new)
       \/ \E new \in FeeChoices : SetFees(new)
       \/ \E v \in FeedChoices, grace \in GraceChoices : SetSequencerUptimeFeed(v, grace)
    /\ UNCHANGED <<now, oracleVars, poolVars, tokenVars, bookVars, sequencer>>

(* setOracle to a newly deployed oracle: the constructor's defaults, seeded*)
(* with the current prints of some stocks, as scripts/upgrade-oracle.js.   *)
SetOracle(seeded) ==
    /\ print' = [s \in Stocks |-> IF s \in seeded THEN print[s] ELSE NoPrint]
    /\ maxAge' = DefaultMaxAge /\ maxAgeWhenClosed' = DefaultMaxAgeWhenClosed
    /\ maxDeviationBps' = 2000
    /\ relayers' = {Owner}
    /\ UNCHANGED <<now, poolVars, tokenVars, bookVars, listVars, paramVars, sequencer>>

-----------------------------------------------------------------------------
(* The L2 sequencer and Chainlink's report of it.                          *)

SequencerStatus(up) ==
    /\ sequencer.up # up
    /\ now < StallBy
    /\ sequencer' = [up |-> up, startedAt |-> now]
    /\ UNCHANGED <<now, oracleVars, poolVars, tokenVars, bookVars, listVars, paramVars>>

SequencerOk ==
    feedSet => sequencer.up /\ now - sequencer.startedAt > gracePeriod

-----------------------------------------------------------------------------
(* The product.                                                            *)

\* Slips: a used order key is taken again; what arrived is not measured.
AnyKey(key) == TRUE
AnyReceipt(s, sh) == TRUE

Unused(key) == orderToLoan[key] = 0
ReceivedInFull(s, sh) == Arriving(s, sh) = sh       \* else CollateralShortfall

OpenLoan(b, s, sh, m, ref, amount, tenor) ==
    LET key == <<m, ref, b>>
        id  == Len(loans) + 1
    IN  /\ Len(loans) < MaxLoans
        /\ s \in acceptedStocks
        /\ requireRegisteredMerchant => m \in registeredMerchants
        /\ sh # 0 /\ amount # 0
        /\ MinTenor <= tenor /\ tenor <= MaxTenor
        /\ Unused(key)
        /\ Fresh(s)
        /\ WithinCeiling(amount, sh, print[s].usdPerShare, print[s].marketOpen,
                         tenor, risk, fees)
        /\ loans' = Append(loans,
              [borrower |-> b, merchant |-> m, stock |-> s, shares |-> sh,
               principal |-> amount, fee |-> FeeFor(amount, tenor, fees),
               openedAt |-> now, dueAt |-> now + tenor,
               openPrice |-> print[s].usdPerShare,
               openedWhileClosed |-> ~print[s].marketOpen, status |-> "Active"])
        /\ orderToLoan' = [orderToLoan EXCEPT ![key] = id]
        /\ lockedOf' = [lockedOf EXCEPT ![s] = @ + sh]
        /\ Transferable(shares, s, b, Engine, sh)
        /\ ReceivedInFull(s, sh)
        /\ shares' = AfterTransfer(shares, s, b, Engine, sh)
        /\ Draw(m, amount)
        /\ UNCHANGED <<now, oracleVars, blocked, skimming, claimable, listVars, paramVars, sequencer>>

\* Slips: a refused delivery reverts; a refused delivery is forgotten; a
\* delivery is credited all the same.
DeliverOrRevert(ledger, s, to, amount) ==
    /\ Transferable(ledger, s, Engine, to, amount)
    /\ shares' = AfterTransfer(ledger, s, Engine, to, amount)
    /\ claimable' = claimable
DeliverOrForget(ledger, s, to, amount) ==
    /\ shares' = IF Transferable(ledger, s, Engine, to, amount)
                 THEN AfterTransfer(ledger, s, Engine, to, amount) ELSE ledger
    /\ claimable' = claimable

DeliverAndCredit(ledger, s, to, amount) ==
    /\ shares' = IF Transferable(ledger, s, Engine, to, amount)
                 THEN AfterTransfer(ledger, s, Engine, to, amount) ELSE ledger
    /\ claimable' = [claimable EXCEPT ![to][s] = @ + amount]

(* Try to hand shares over on the given ledger; if the token refuses, owe  *)
(* them instead of reverting.                                              *)
Deliver(ledger, s, to, amount) ==
    IF Transferable(ledger, s, Engine, to, amount)
    THEN /\ shares' = AfterTransfer(ledger, s, Engine, to, amount)
         /\ claimable' = claimable
    ELSE /\ shares' = ledger
         /\ claimable' = [claimable EXCEPT ![to][s] = @ + amount]

\* Slips: an exit releases nothing, or releases the principal.
ReleaseNothing(l) == lockedOf' = lockedOf
ReleasePrincipal(l) == lockedOf' = [lockedOf EXCEPT ![l.stock] = @ - l.principal]

Release(l) == lockedOf' = [lockedOf EXCEPT ![l.stock] = @ - l.shares]

(* What repay, refund and liquidate share: the loan leaves Active, its     *)
(* shares stop being locked and the payer makes the pool whole.            *)
CloseLoan(id, payer, outcome) ==
    LET l == loans[id]
    IN  /\ l.status = "Active"
        /\ loans' = [loans EXCEPT ![id].status = outcome]
        /\ Release(l)
        /\ OnRepaid(payer, l.principal, l.fee)
        /\ UNCHANGED <<now, oracleVars, blocked, skimming, orderToLoan, listVars, paramVars, sequencer>>

Repay(caller, id) ==
    LET l == loans[id]
    IN  /\ caller = l.borrower
        /\ CloseLoan(id, caller, "Repaid")
        /\ Deliver(shares, l.stock, l.borrower, l.shares)

Refund(caller, id) ==
    LET l == loans[id]
    IN  /\ caller = l.merchant
        /\ CloseLoan(id, caller, "Refunded")
        /\ Deliver(shares, l.stock, l.borrower, l.shares)

(* What is reported of a position no price can be put on; the contract's   *)
(* largest number, here the least that passes every test.                  *)
Unassessable == Wad

Health(id) ==
    LET l == loans[id]
    IN  IF Fresh(l.stock)
        THEN HealthFactor(l.shares, print[l.stock].usdPerShare, Debt(l), risk)
        ELSE Unassessable

\* A slip: the view is content with any fresh print.
AnyPrint(s) == TRUE

(* A live print, as isLiquidatable tests it: the venue is open and the     *)
(* price young by the open bound.                                          *)
LivePrint(s) == print[s].marketOpen /\ Age(s) <= maxAge

(* The same as liquidate tests it, on what getPrice gives it.              *)
SaleablePrint(s) == Fresh(s) /\ print[s].marketOpen /\ Age(s) <= maxAge

\* Slips: the due day is already late; only the health factor counts.
OverdueOnTheDay(l) == now >= l.dueAt
NeverOverdue(l) == FALSE

Overdue(l) == now > l.dueAt

IsLiquidatable(id) ==
    LET l == loans[id]
    IN  /\ l.status = "Active"
        /\ SequencerOk
        /\ Fresh(l.stock)
        /\ LivePrint(l.stock)
        /\ Overdue(l) \/ Health(id) < Wad

(* The liquidator's leg may revert; the borrower's leg is only attempted.  *)
Liquidate(caller, id) ==
    LET l        == loans[id]
        wanted   == SharesToSeize(Debt(l), print[l.stock].usdPerShare, risk)
        seized   == IF wanted >= l.shares THEN l.shares ELSE wanted
        returned == l.shares - seized
        ledger   == AfterTransfer(shares, l.stock, Engine, caller, seized)
    IN  /\ IsLiquidatable(id)
        /\ SaleablePrint(l.stock)
        /\ CloseLoan(id, caller, "Liquidated")
        /\ Transferable(shares, l.stock, Engine, caller, seized)
        /\ Deliver(ledger, l.stock, l.borrower, returned)

Claim(caller, s) ==
    LET amount == claimable[caller][s]
    IN  /\ amount # 0
        /\ claimable' = [claimable EXCEPT ![caller][s] = 0]
        /\ Transferable(shares, s, Engine, caller, amount)
        /\ shares' = AfterTransfer(shares, s, Engine, caller, amount)
        /\ UNCHANGED <<now, oracleVars, poolVars, blocked, skimming, loans, lockedOf, orderToLoan,
                       listVars, paramVars, sequencer>>

-----------------------------------------------------------------------------
Engaged ==
    \/ \E b \in Borrowers, s \in Stocks, sh \in ShareAmounts, m \in Merchants,
          ref \in OrderRefs, amount \in BorrowAmounts, tenor \in Tenors :
          OpenLoan(b, s, sh, m, ref, amount, tenor)
    \/ \E id \in LoanIds, a \in Accounts : Repay(a, id) \/ Refund(a, id)
    \/ \E id \in LoanIds, a \in Liquidators : Liquidate(a, id)
    \/ \E a \in Accounts, s \in Stocks : Claim(a, s)

Next ==
    \/ Engaged
    \/ EngineAdmin
    \/ \E seeded \in OracleSwaps : SetOracle(seeded)
    \/ \E up \in BOOLEAN : SequencerStatus(up)
    \/ /\ OracleNext
       /\ now' >= StallBy => sequencer.up
       /\ UNCHANGED <<poolVars, tokenVars, bookVars, listVars, paramVars, sequencer>>
    \/ PoolNext /\ UNCHANGED <<now, oracleVars, tokenVars, bookVars, listVars, paramVars, sequencer>>
    \/ TokenNext /\ UNCHANGED <<now, oracleVars, poolVars, bookVars, listVars, paramVars, sequencer>>

Spec == Init /\ [][Next]_vars

-----------------------------------------------------------------------------
(* What the book must satisfy.                                             *)

ActiveShares(book, s) ==
    [i \in 1..Len(book) |->
        IF book[i].status = "Active" /\ book[i].stock = s THEN book[i].shares ELSE 0]
ActivePrincipal(book) ==
    [i \in 1..Len(book) |-> IF book[i].status = "Active" THEN book[i].principal ELSE 0]
Deferred(claims, s) == [a \in Accounts |-> claims[a][s]]

(* lockedOf, a running total kept by openLoan and every exit, is the sum   *)
(* of the shares of the active loans of that stock: no exit forgets to     *)
(* release, none releases twice (verify-invariants.js, D3).                *)
LockedMatchesLoans ==
    \A s \in Stocks : lockedOf[s] = SumTo(ActiveShares(loans, s), Len(loans))

(* Every share the engine holds is owed to someone: it is locked for an    *)
(* active loan or waits in `claimable`.  So _deliver, claim and liquidate  *)
(* can never pay one holder with another's shares, nor orphan any.         *)
CustodyIsExact ==
    \A s \in Stocks :
        shares[s][Engine] = lockedOf[s] + SumTo(Deferred(claimable, s), NumAccounts)

(* The pool's `outstanding` is the principal of the active loans           *)
(* (verify-invariants.js, D2): onRepaid's cap, there for a double booking, *)
(* never hides one.                                                        *)
OutstandingMatchesLoans ==
    outstanding = SumTo(ActivePrincipal(loans), Len(loans))

(* Cash plus principal out equals what was put in plus fees earned: a loan *)
(* that ends in any way leaves the pool whole, and withdraw takes only what*)
(* is there.                                                               *)
PoolIsWhole == stable[Pool] + outstanding = contributed + earned

(* The three running totals, kept apart by different calls in two          *)
(* contracts, never drift from the loans they sum up, whatever mix of      *)
(* exits closes them and in whatever order.                                *)
TotalsMatchLoans == LockedMatchesLoans /\ OutstandingMatchesLoans /\ PoolIsWhole

(* Used order keys and loans correspond one to one, and a key's loan is    *)
(* between its own merchant and borrower: a shopper who taps twice never   *)
(* gets two loans for a basket, and no stranger can burn a reference.      *)
OneLoanPerOrder ==
    /\ \A key \in OrderKey : orderToLoan[key] # 0 =>
          /\ orderToLoan[key] \in LoanIds
          /\ loans[orderToLoan[key]].merchant = key[1]
          /\ loans[orderToLoan[key]].borrower = key[3]
    /\ \A id \in LoanIds : \E key \in OrderKey : orderToLoan[key] = id
    /\ \A k1, k2 \in OrderKey :
          orderToLoan[k1] = orderToLoan[k2] /\ orderToLoan[k1] # 0 => k1 = k2

(* A borrower who holds the money can always repay, whatever the market,   *)
(* the sequencer, the issuer's blocklist or the listing of the stock: the  *)
(* shares are delivered or credited, never a reason to revert.  Only       *)
(* unplugging the pool from the engine stops it.                           *)
ExitAlwaysOpen ==
    \A id \in LoanIds :
        LET l == loans[id]
        IN  l.status = "Active" /\ engineWired /\ stable[l.borrower] >= Debt(l)
                => ENABLED Repay(l.borrower, id)

(* isLiquidatable does not promise a call that is going to revert: when it *)
(* says yes, liquidate's own tests of the print agree, and a liquidator    *)
(* with the money whom the issuer serves succeeds, even if the borrower is *)
(* blocked.                                                                *)
LiquidatableIsClearable ==
    \A id \in LoanIds, q \in Liquidators :
        LET l == loans[id]
        IN  /\ IsLiquidatable(id) /\ engineWired /\ stable[q] >= Debt(l)
            /\ blocked[l.stock] \cap {q, Engine} = {}
            => ENABLED Liquidate(q, id)

(* What a refused delivery left behind can be had as soon as the issuer    *)
(* serves its holder again: neither the other loans nor the other holders  *)
(* draw on the shares in custody for it, and a delivery that went through  *)
(* leaves nothing to claim.                                                *)
ClaimAlwaysPays ==
    \A a \in Accounts, s \in Stocks :
        claimable[a][s] # 0 /\ blocked[s] \cap {a, Engine} = {} => ENABLED Claim(a, s)

Closes(id, outcome) == loans[id].status = "Active" /\ loans'[id].status = outcome

(* The shares a borrower ends up with, in hand or owed, from one step.     *)
Gain(l) ==
      (shares'[l.stock][l.borrower] - shares[l.stock][l.borrower])
    + (claimable'[l.borrower][l.stock] - claimable[l.borrower][l.stock])

(* A loan is never liquidatable the instant it opens, at the parameters and*)
(* print it opened with: the ceiling, with its roundings and the after-    *)
(* hours haircut, stays below the threshold the health factor tests.       *)
FreshLoanIsSafe ==
    [][\A id \in 1..Len(loans') : id \notin LoanIds => ~IsLiquidatable(id)']_vars

(* Liquidation sells only what is needed: shares that do not go back to the*)
(* borrower are worth no more than debt plus bonus at the current print,   *)
(* and the pool receives the debt in full.                                 *)
SeizureIsProportionate ==
    [][\A id \in LoanIds : Closes(id, "Liquidated") =>
        LET l    == loans[id]
            lost == l.shares - Gain(l)
        IN  /\ lost * print[l.stock].usdPerShare * StableUnit * Bps
                  <= Debt(l) * (Bps + risk.liquidationBonusBps) * ShareUnit * PriceUnit
            /\ stable'[Pool] - stable[Pool] = Debt(l)]_vars

(* Repaying, or a merchant's refund, returns the collateral exactly, in    *)
(* hand or as a claim, and the pool books the whole principal and fee.     *)
ExitMakesWhole ==
    [][\A id \in LoanIds : Closes(id, "Repaid") \/ Closes(id, "Refunded") =>
        LET l == loans[id]
        IN  /\ Gain(l) = l.shares
            /\ outstanding - outstanding' = l.principal
            /\ earned' - earned = l.fee]_vars

(* The system keeps the promise of PledgedCredit, where there is no custody*)
(* to share, no delivery to refuse, no running total and no rounding: every*)
(* pledge is covered when it is taken and comes back whole, or is sold late*)
(* or sunk and for no more than debt and bonus; a claim only hands over    *)
(* what was owed; and no other step of anybody's moves a share anyone owns *)
(* or is owed, or the lender's money (while no token charges for transfers)*)
PledgeOf(l) ==
    [owner |-> l.borrower, stock |-> l.stock, shares |-> l.shares,
     owed |-> Debt(l), fee |-> l.fee, due |-> l.dueAt,
     state |-> IF l.status = "Active" THEN "open"
               ELSE IF l.status = "Liquidated" THEN "sold" ELSE "returned"]
Pledges == [id \in LoanIds |-> PledgeOf(loans[id])]
Estate == [a \in Accounts |-> [s \in Stocks |-> shares[s][a] + claimable[a][s]]]
Income == stable[Pool] + outstanding - contributed
Marks == [s \in Stocks |-> print[s].usdPerShare]
Terms ==
    [ceiling |-> risk.maxLtvBps, threshold |-> risk.liquidationThresholdBps,
     bonus |-> risk.liquidationBonusBps]
Promise == INSTANCE PledgedCredit
           WITH time <- now, mark <- Marks, terms <- Terms, pledges <- Pledges,
                estate <- Estate, income <- Income,
                Numer <- StableUnit, Denom <- ShareUnit * PriceUnit
KeepsPledge == Promise!Spec

(* Before its due date a position is taken only after the mark has fallen  *)
(* below the print the loan was written against (while the owner leaves    *)
(* the risk parameters alone).                                             *)
SeizedEarlyOnlyOnAFall ==
    [][\A id \in LoanIds : Closes(id, "Liquidated") /\ now <= loans[id].dueAt =>
        print[loans[id].stock].usdPerShare < loans[id].openPrice]_vars

(* The circuit breaker leaves room between ceiling and threshold: one post *)
(* by a relayer cannot push a loan whose stock still marks at or above its *)
(* opening print through the liquidation threshold.                        *)
OnePostCannotSeize ==
    [][\A id \in LoanIds, r \in Accounts, usd \in Prices, at \in 0..now, open \in BOOLEAN :
        LET l == loans[id]
        IN  /\ l.status = "Active" /\ print[l.stock].usdPerShare >= l.openPrice
            /\ PostPrice(r, l.stock, usd, at, open)
            => Health(id)' >= Wad]_vars

-----------------------------------------------------------------------------
(* The comment on liquidate() says the pool wears the shortfall when the   *)
(* collateral no longer covers the debt: clearing such a loan would bring  *)
(* the pool less than the debt.  The code charges the liquidator all of it.*)
PoolWearsTheShortfall ==
    [][\A id \in LoanIds :
        LET l == loans[id]
        IN  /\ Closes(id, "Liquidated")
            /\ CollateralValueOf(l.shares, print[l.stock].usdPerShare) < Debt(l)
            => stable'[Pool] - stable[Pool] < Debt(l)]_vars

-----------------------------------------------------------------------------
(* Liveness.  Blocks keep coming, the relayer keeps carrying live prints of*)
(* the open venue (its loop posts every minute), the sequencer recovers,   *)
(* and a keeper sweeps every loan every 30 seconds, so that a loan that is *)
(* liquidatable again and again is eventually caught while it is.          *)
NextBlock ==
    /\ Tick
    /\ now' >= StallBy => sequencer.up
    /\ UNCHANGED <<poolVars, tokenVars, bookVars, listVars, paramVars, sequencer>>

CarryLivePrint(s) ==
    /\ \E r \in Accounts, usd \in Prices : PostPrice(r, s, usd, now, TRUE)
    /\ UNCHANGED <<poolVars, tokenVars, bookVars, listVars, paramVars, sequencer>>

Fairness ==
    /\ SF_vars(NextBlock)
    /\ WF_vars(SequencerStatus(TRUE))
    /\ \A s \in Stocks : SF_vars(CarryLivePrint(s) /\ ~(Fresh(s) /\ LivePrint(s)))
    /\ \A id \in 1..MaxLoans, q \in Liquidators :
          SF_vars(id \in LoanIds /\ Liquidate(q, id))

FairSpec == Spec /\ Fairness

(* A loan past its due date does not stay on the book: it is repaid,       *)
(* refunded or liquidated, as long as some liquidator holds its debt.      *)
PastDue(id) == id \in LoanIds /\ loans[id].status = "Active" /\ now > loans[id].dueAt

PastDueIsCleared == \A id \in 1..MaxLoans : PastDue(id) ~> ~PastDue(id)

=============================================================================
