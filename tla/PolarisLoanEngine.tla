-------------------------- MODULE PolarisLoanEngine --------------------------
(***************************************************************************)
(* PolarisLoanEngine.sol with the score, the vault, the registry and the   *)
(* stablecoin it calls: pay the merchant now, collect instalments against  *)
(* a standing allowance, liquidate what stays overdue.  One action per     *)
(* external function; a reverting transaction is no step.  The stablecoin  *)
(* delivers what is sent, so the amount measured is the amount asked for.  *)
(***************************************************************************)
EXTENDS CollateralVault, ScoreManager, MerchantRegistry, PrefixSums, Sequences

CONSTANTS
    Year, MinInterval,      \* 365 days and 1 hour, in the instance's time unit
    GracePeriod,            \* set once by the constructor
    Owner, Borrowers,
    Operators,              \* the accounts the owner may let originate
    Principals, Counts, Intervals,      \* what a checkout may ask for
    RepayAmounts,           \* what callers of repay() may ask to draw
    FundAmounts, TakeAmounts,           \* liquidity put in and taken out
    WiringChoices,          \* subset of BOOLEAN: the engine's two pointers
    TreasuryChoices,
    MaxTime, MaxLoans       \* bounds on the clock and on the number of loans

Positive == Nat \ {0}

ASSUME LineAssumption ==
    /\ Year \in Positive /\ MinInterval \in Positive /\ GracePeriod \in Nat
    /\ Owner \in Accounts /\ Borrowers \subseteq Accounts /\ Operators \subseteq Accounts
    /\ Principals \subseteq Nat /\ Counts \subseteq Nat /\ Intervals \subseteq Nat
    /\ RepayAmounts \subseteq Nat
    /\ FundAmounts \subseteq Nat /\ TakeAmounts \subseteq Nat
    /\ WiringChoices \subseteq BOOLEAN /\ TreasuryChoices \subseteq Accounts
    /\ MaxTime \in Nat /\ MaxLoans \in Nat

VARIABLES
    now,                    \* block.timestamp
    loans,                  \* the sequence of every loan; ids start at 1
    activeDebtOf,           \* account -> what it owes on active loans
    protocolFeesAccrued, badDebt,
    originators, treasury, vaultSet, registrySet,
    supplied, swept         \* history: liquidity put in net of what was taken
                            \* out, and fees swept

bookVars == <<loans, activeDebtOf, protocolFeesAccrued, badDebt>>
engineParams == <<originators, treasury, vaultSet, registrySet>>
historyVars == <<supplied, swept>>
vars == <<now, bookVars, engineParams, historyVars, coinVars, vaultVars, scoreVars, merchants>>

InterestRateBps == 1000
ProtocolFeeBps == 2000
MaxInstallments == 24

Loan ==
    [borrower : Accounts, merchant : Accounts,
     principal : Nat, totalOwed : Nat, totalRepaid : Nat,
     installmentCount : Positive, installmentsPaid : Nat,
     startedAt : Nat, interval : Nat,
     status : {"Active", "Repaid", "Liquidated"}]

(* Besides the shapes: balances, totals and debts never go below zero, so  *)
(* no subtraction of the contracts reverts where the code means it to work.*)
TypeOK ==
    /\ now \in Nat
    /\ loans \in Seq(Loan)
    /\ activeDebtOf \in [Accounts -> Nat]
    /\ protocolFeesAccrued \in Nat /\ badDebt \in Nat
    /\ originators \subseteq Accounts /\ treasury \in Accounts
    /\ vaultSet \in BOOLEAN /\ registrySet \in BOOLEAN
    /\ supplied \in Int /\ swept \in Nat
    /\ CoinTypeOK /\ VaultTypeOK /\ ScoreTypeOK /\ RegistryTypeOK

Init ==
    /\ CoinInit /\ VaultInit /\ ScoreInit /\ RegistryInit
    /\ now = 0
    /\ loans = <<>>
    /\ activeDebtOf = [a \in Accounts |-> 0]
    /\ protocolFeesAccrued = 0 /\ badDebt = 0
    /\ originators = {Owner} /\ treasury = Owner        \* deploy-fixed.js
    /\ vaultSet = TRUE /\ registrySet = TRUE
    /\ supplied = 0 /\ swept = 0

LoanIds == 1..Len(loans)
Remaining(l) == l.totalOwed - l.totalRepaid
Interest(l) == l.totalOwed - l.principal

-----------------------------------------------------------------------------
(* The instalment ladder: what must have been repaid for k instalments to  *)
(* count, rounded up.                                                      *)
ThresholdFor(l, k) ==
    IF k = 0 THEN 0
    ELSE IF k >= l.installmentCount THEN l.totalOwed
    ELSE (l.totalOwed * k + l.installmentCount - 1) \div l.installmentCount

\* A slip: counting calls instead of money.
OneMore(l) == l.installmentsPaid + 1

(* Where the walk up the ladder stops.                                     *)
InstallmentsEarned(l) ==
    CHOOSE k \in 0..l.installmentCount :
        /\ \A j \in 1..k : l.totalRepaid >= ThresholdFor(l, j)
        /\ k = l.installmentCount \/ l.totalRepaid < ThresholdFor(l, k + 1)

\* A slip: the first instalment falls due at the start.
DueFromTheStart(l, index) == l.startedAt + index * l.interval

InstallmentDueAt(l, index) == l.startedAt + (index + 1) * l.interval

Overdue(l) == now > InstallmentDueAt(l, l.installmentsPaid) + GracePeriod

CheckLiquidatable(id) ==
    LET l == loans[id]
    IN  /\ l.status = "Active"
        /\ l.installmentsPaid < l.installmentCount
        /\ Overdue(l)

-----------------------------------------------------------------------------
Fund(a, amount) ==
    /\ Pullable(Contract, a, amount)
    /\ usdc' = Moved(usdc, a, Contract, amount)
    /\ allowance' = Spent(Contract, a, amount)
    /\ supplied' = supplied + amount
    /\ UNCHANGED <<now, bookVars, engineParams, swept, vaultVars, scoreVars, merchants>>

\* A slip: the fees are not held back.
AllOfIt == usdc[Contract]

Withdrawable ==
    IF usdc[Contract] > protocolFeesAccrued THEN usdc[Contract] - protocolFeesAccrued ELSE 0

WithdrawLiquidity(to, amount) ==
    /\ amount <= Withdrawable
    /\ usdc' = Moved(usdc, Contract, to, amount)
    /\ supplied' = supplied - amount
    /\ UNCHANGED <<now, bookVars, engineParams, swept, allowance, vaultVars, scoreVars, merchants>>

InterestOn(principal, count, interval) ==
    (principal * InterestRateBps * count * interval) \div (10000 * Year)

(* A debt is a uint256, and the unlimited allowance is the largest of them.*)
ASSUME AmountAssumption ==
    \A principal \in Principals, count \in Counts, interval \in Intervals :
        principal + InterestOn(principal, count, interval) <= Unlimited

\* A slip: the allowance is compared with the new loan alone.
BackedAlone(b, owed) == owed <= allowance[Contract][b]

(* One allowance backs every open plan of the borrower at once.            *)
Backed(b, owed) == activeDebtOf[b] + owed <= allowance[Contract][b]

CreateLoan(b, m, principal, count, interval) ==
    LET owed == principal + InterestOn(principal, count, interval)
    IN  /\ Len(loans) < MaxLoans
        /\ originators # {}
        /\ principal # 0
        /\ count # 0 /\ count <= MaxInstallments
        /\ MinInterval <= interval /\ interval <= Year
        /\ registrySet => CanOriginate(m, principal)
        /\ activeDebtOf[b] + owed <= CreditLimitOf(b, CreditBoostOf(b))
        /\ Backed(b, owed)
        /\ loans' = Append(loans,
              [borrower |-> b, merchant |-> m, principal |-> principal,
               totalOwed |-> owed, totalRepaid |-> 0,
               installmentCount |-> count, installmentsPaid |-> 0,
               startedAt |-> now, interval |-> interval, status |-> "Active"])
        /\ activeDebtOf' = [activeDebtOf EXCEPT ![b] = @ + owed]
        /\ principal <= usdc[Contract]
        /\ usdc' = Moved(usdc, Contract, m, principal)
        /\ UNCHANGED <<now, protocolFeesAccrued, badDebt, engineParams, historyVars,
                       allowance, vaultVars, scoreVars, merchants>>

\* A slip: a tenth of every payment is taken to be interest.
FeeOnWhole(l, amount) == (amount * InterestRateBps * ProtocolFeeBps) \div (10000 * 10000)

(* The protocol's share of the interest in a payment.                      *)
FeeOn(l, amount) ==
    (amount * Interest(l) * ProtocolFeeBps) \div (l.totalOwed * 10000)

\* A slip: every payment is scored.
ScoreEveryPayment(l, earned) ==
    IF Overdue(l) THEN RecordLatePayment(l.borrower) ELSE RecordOnTimePayment(l.borrower)

(* The score moves once, and only when an instalment completes.            *)
ScorePayment(l, earned) ==
    IF earned <= l.installmentsPaid THEN UNCHANGED profile
    ELSE IF Overdue(l) THEN RecordLatePayment(l.borrower)
    ELSE RecordOnTimePayment(l.borrower)

(* Anybody may call it: the money can only come from the borrower.         *)
Repay(id, asked) ==
    LET l      == loans[id]
        amount == IF asked > Remaining(l) THEN Remaining(l) ELSE asked
        paid   == [l EXCEPT !.totalRepaid = @ + amount]
        earned == InstallmentsEarned(paid)
    IN  /\ l.status = "Active"
        /\ asked # 0
        /\ l.installmentsPaid < l.installmentCount
        /\ Pullable(Contract, l.borrower, amount)
        /\ amount # 0
        /\ usdc' = Moved(usdc, l.borrower, Contract, amount)
        /\ allowance' = Spent(Contract, l.borrower, amount)
        /\ activeDebtOf' = [activeDebtOf EXCEPT ![l.borrower] = @ - amount]
        /\ protocolFeesAccrued' = protocolFeesAccrued + FeeOn(l, amount)
        /\ ScorePayment(l, earned)
        /\ loans' = [loans EXCEPT ![id] =
              [paid EXCEPT !.installmentsPaid = earned,
                           !.status = IF paid.totalRepaid >= l.totalOwed THEN "Repaid" ELSE @]]
        /\ UNCHANGED <<now, badDebt, engineParams, historyVars, vaultVars, scoreParams, merchants>>

Least(a, b) == IF a <= b THEN a ELSE b

\* A slip: the balance is not looked at.
UpToAllowance(b, wanted) == Least(wanted, allowance[Contract][b])

(* What the standing allowance and the balance still permit.               *)
Recoverable(b, wanted) == Least(wanted, Least(allowance[Contract][b], usdc[b]))

\* A slip: collateral is forgotten.
NoCollateral(b, wanted) == 0

(* What is left to take from the vault, if the engine points at one.       *)
FromVault(b, wanted) == IF vaultSet THEN Seizable(b, wanted) ELSE 0

\* A slip: the debt stays on the borrower's line.
DebtKept(b, outstanding) == activeDebtOf

DebtCleared(b, outstanding) == [activeDebtOf EXCEPT ![b] = @ - outstanding]

Liquidate(id) ==
    LET l           == loans[id]
        outstanding == Remaining(l)
        take        == Recoverable(l.borrower, outstanding)
        seized      == FromVault(l.borrower, outstanding - take)
    IN  /\ CheckLiquidatable(id)
        /\ Pullable(Contract, l.borrower, take)
        /\ vaultSet /\ take < outstanding => engineSeizes
        /\ loans' = [loans EXCEPT ![id].status = "Liquidated",
                                  ![id].totalRepaid = @ + take + seized]
        /\ activeDebtOf' = DebtCleared(l.borrower, outstanding)
        /\ allowance' = Spent(Contract, l.borrower, take)
        /\ Seize(l.borrower, seized)
        /\ usdc' = Moved(Moved(usdc, l.borrower, Contract, take), Vault, Contract, seized)
        /\ badDebt' = badDebt + (outstanding - take - seized)
        /\ RecordLiquidation(l.borrower)
        /\ UNCHANGED <<now, protocolFeesAccrued, engineParams, historyVars,
                       vaultParams, scoreParams, merchants>>

SweepFees ==
    /\ protocolFeesAccrued <= usdc[Contract]
    /\ protocolFeesAccrued' = 0
    /\ swept' = swept + protocolFeesAccrued
    /\ usdc' = Moved(usdc, Contract, treasury, protocolFeesAccrued)
    /\ UNCHANGED <<now, loans, activeDebtOf, badDebt, engineParams, supplied,
                   allowance, vaultVars, scoreVars, merchants>>

-----------------------------------------------------------------------------
SetOriginator(a, allowed) ==
    /\ originators' = IF allowed THEN originators \cup {a} ELSE originators \ {a}
    /\ UNCHANGED <<treasury, vaultSet, registrySet>>

SetTreasury(a) == treasury' = a /\ UNCHANGED <<originators, vaultSet, registrySet>>

SetCollateralVault(v) == vaultSet' = v /\ UNCHANGED <<originators, treasury, registrySet>>

SetMerchantRegistry(v) == registrySet' = v /\ UNCHANGED <<originators, treasury, vaultSet>>

EngineSetters ==
    \/ \E a \in Operators, v \in BOOLEAN : SetOriginator(a, v)
    \/ \E a \in TreasuryChoices : SetTreasury(a)
    \/ \E v \in WiringChoices : SetCollateralVault(v) \/ SetMerchantRegistry(v)

Tick ==
    /\ now < MaxTime
    /\ now' = now + 1
    /\ UNCHANGED <<bookVars, engineParams, historyVars, coinVars, vaultVars, scoreVars, merchants>>

Next ==
    \/ Tick
    \/ \E a \in Accounts, amount \in FundAmounts : Fund(a, amount)
    \/ \E amount \in TakeAmounts : WithdrawLiquidity(Owner, amount)
    \/ \E b \in Borrowers, m \in Merchants, principal \in Principals,
          count \in Counts, interval \in Intervals :
          CreateLoan(b, m, principal, count, interval)
    \/ \E id \in LoanIds, asked \in RepayAmounts : Repay(id, asked)
    \/ \E id \in LoanIds : Liquidate(id)
    \/ SweepFees
    \/ \E a \in Accounts, amount \in LockAmounts :
          /\ WithdrawCollateral(a, amount, activeDebtOf[a])
          /\ UNCHANGED <<now, bookVars, engineParams, historyVars, scoreVars, merchants>>
    \/ /\ EngineSetters
       /\ UNCHANGED <<now, bookVars, historyVars, coinVars, vaultVars, scoreVars, merchants>>
    \/ /\ CoinNext
       /\ UNCHANGED <<now, bookVars, engineParams, historyVars, vaultVars, scoreVars, merchants>>
    \/ /\ VaultNext
       /\ UNCHANGED <<now, bookVars, engineParams, historyVars, scoreVars, merchants>>
    \/ /\ ScoreNext
       /\ UNCHANGED <<now, bookVars, engineParams, historyVars, coinVars, vaultVars, merchants>>
    \/ /\ RegistryNext
       /\ UNCHANGED <<now, bookVars, engineParams, historyVars, coinVars, vaultVars, scoreVars>>

Spec == Init /\ [][Next]_vars

-----------------------------------------------------------------------------
(* What the credit line must satisfy.                                      *)

ActiveDebt(book, a) ==
    [i \in 1..Len(book) |->
        IF book[i].status = "Active" /\ book[i].borrower = a THEN Remaining(book[i]) ELSE 0]
WrittenOff(book) ==
    [i \in 1..Len(book) |-> IF book[i].status = "Liquidated" THEN Remaining(book[i]) ELSE 0]
InterestShare(l) ==
    (l.totalRepaid * Interest(l) * ProtocolFeeBps) \div (10000 * l.totalOwed)
PaidIn(book) == [i \in 1..Len(book) |-> book[i].totalRepaid]
PaidOut(book) == [i \in 1..Len(book) |-> book[i].principal]

(* activeDebtOf, the number that caps new credit and blocks the vault, is  *)
(* what the borrower's active loans still owe, over every interleaving of  *)
(* plans, partial payments and liquidations; and badDebt is exactly what   *)
(* the liquidated loans never brought in.                                  *)
DebtsAreExact ==
    /\ \A a \in Accounts : activeDebtOf[a] = SumTo(ActiveDebt(loans, a), Len(loans))
    /\ badDebt = SumTo(WrittenOff(loans), Len(loans))

(* The instalment counter always says what the money received covers, and  *)
(* a loan is active exactly while money and instalments are both missing:  *)
(* no payment of any size buys an instalment it does not cover, and no loan*)
(* sits active with nothing left to collect, immune to liquidation.        *)
InstallmentsMatchMoney ==
    \A id \in LoanIds :
        LET l == loans[id]
        IN  /\ l.status # "Liquidated" =>
                  /\ l.totalRepaid >= ThresholdFor(l, l.installmentsPaid)
                  /\ l.status = "Active" =>
                        /\ l.installmentsPaid < l.installmentCount
                        /\ l.totalRepaid < ThresholdFor(l, l.installmentsPaid + 1)
            /\ l.status = "Repaid" =>
                  l.totalRepaid = l.totalOwed /\ l.installmentsPaid = l.installmentCount

(* The engine's cash is liquidity plus collections less what merchants and *)
(* the treasury were paid, and the vault holds exactly what it owes to the *)
(* borrowers: a seizure moves money once, and neither contract ever pays   *)
(* with the other's.                                                       *)
LineBooksBalance ==
    /\ usdc[Contract] + swept + SumTo(PaidOut(loans), Len(loans))
          = supplied + SumTo(PaidIn(loans), Len(loans))
    /\ usdc[Vault] = totalLocked
    /\ totalLocked = SumTo(lockedOf, NumAccounts)

(* The treasury's fees, swept or not, never exceed its share of the        *)
(* interest in the money received, however payments are split: the fee     *)
(* does not eat into liquidity.                                            *)
FeesComeFromInterest ==
    protocolFeesAccrued + swept
        <= SumTo([i \in LoanIds |-> InterestShare(loans[i])], Len(loans))

(* While a borrower's own approvals and deposits leave it alone, the       *)
(* allowance that covered every open plan keeps covering them: no          *)
(* origination, collection or liquidation leaves another plan unbacked.    *)
ApprovalBacksEveryPlan ==
    [][\A b \in Accounts :
          /\ activeDebtOf[b] <= allowance[Contract][b]
          /\ activeDebtOf'[b] # activeDebtOf[b]
          => activeDebtOf'[b] <= allowance'[Contract][b]]_vars

(* Loss is booked only when every source is dry: the borrower is out of    *)
(* money or of allowance and, if the engine has a vault, of collateral.    *)
BadDebtIsLastResort ==
    [][\A id \in LoanIds :
        LET b == loans[id].borrower
        IN  badDebt' > badDebt /\ loans'[id].status # loans[id].status =>
                /\ usdc'[b] = 0 \/ allowance'[Contract][b] = 0
                /\ vaultSet => lockedOf'[b] = 0]_vars

(* Collateral that stands behind a debt goes nowhere but to the engine, in *)
(* a liquidation that takes it off the debt (as long as the owner leaves   *)
(* the vault pointed at the engine).                                       *)
CollateralStaysWhileOwed ==
    [][\A a \in Accounts :
        activeDebtOf[a] > 0 /\ debtChecked /\ lockedOf'[a] < lockedOf[a] =>
            /\ activeDebtOf[a] - activeDebtOf'[a] >= lockedOf[a] - lockedOf'[a]
            /\ usdc'[Contract] - usdc[Contract] >= lockedOf[a] - lockedOf'[a]]_vars

(* The engine keeps the promise of InstalmentCredit: through the rounded   *)
(* ladder, the cached instalment counter and every order of payments, a    *)
(* plan defaults only when money and time say that it is behind, and no    *)
(* plan takes more than it is owed or closes short of it.                  *)
PlanOf(l) ==
    [owed |-> l.totalOwed, count |-> l.installmentCount,
     opened |-> l.startedAt, every |-> l.interval, paid |-> l.totalRepaid,
     state |-> IF l.status = "Active" THEN "open"
               ELSE IF l.status = "Repaid" THEN "settled" ELSE "defaulted"]
Plans == [id \in LoanIds |-> PlanOf(loans[id])]
Promise == INSTANCE InstalmentCredit
           WITH time <- now, plans <- Plans, Grace <- GracePeriod, MaxCount <- MaxInstallments
KeepsInstalmentPromise == Promise!Spec

(* A score moves at most once for each instalment completed: payments cut  *)
(* into dust, or one payment over several instalments, farm nothing.       *)
ScoredPerInstallment ==
    \A a \in Accounts :
        profile[a].onTimePayments + profile[a].latePayments
            <= SumTo([i \in LoanIds |->
                        IF loans[i].borrower = a THEN loans[i].installmentsPaid ELSE 0],
                     Len(loans))

(* checkLiquidatable never says yes to a call that must revert: with the   *)
(* deployed wiring a default can be cleared whatever the borrower did with *)
(* money, allowance and collateral.                                        *)
DefaultIsClearable ==
    \A id \in LoanIds :
        CheckLiquidatable(id) /\ engineWrites /\ engineSeizes => ENABLED Liquidate(id)

(* Accrued fees are excluded from what withdrawLiquidity can take; only    *)
(* paying a merchant may leave less cash than the treasury is owed.        *)
OnlyLendingSpendsFees ==
    [][/\ usdc[Contract] >= protocolFeesAccrued
       /\ usdc'[Contract] < protocolFeesAccrued'
       => Len(loans') > Len(loans)]_vars

=============================================================================
