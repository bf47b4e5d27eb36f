---------------------- MODULE PolarisLoanEngineProofs ----------------------
(***************************************************************************)
(* The books of the credit line balance for every number of accounts and   *)
(* loans, every schedule, amount and wiring.                               *)
(*                                                                         *)
(* The invariants need one another: that a repayment or a liquidation may  *)
(* be subtracted from activeDebtOf needs it to be a sum that includes the  *)
(* loan, and that the vault can pay needs its balance to be the sum of what*)
(* it keeps for everybody.  Their conjunction is inductive.  On it rest    *)
(* what the line promises its users and the refinement of InstalmentCredit.*)
(***************************************************************************)
EXTENDS PolarisLoanEngine, PrefixSumTheorems

(* A loan never brings in more than it is owed, and always owes something. *)
SoundLoan ==
    {l \in Loan : /\ 0 < l.principal /\ l.principal <= l.totalOwed
                  /\ l.totalRepaid <= l.totalOwed
                  /\ l.status = "Repaid" => l.totalRepaid = l.totalOwed}

IInv == TypeOK /\ loans \in Seq(SoundLoan) /\ DebtsAreExact /\ LineBooksBalance

-----------------------------------------------------------------------------
(* Arithmetic.                                                             *)

LEMMA ProductIsNatural ==
    ASSUME NEW a \in Nat, NEW b \in Nat
    PROVE  a * b \in Nat
OBVIOUS

LEMMA Shift ==
    ASSUME NEW c \in Int, NEW s \in Int, NEW p \in Int, NEW d \in Int, NEW t \in Int,
           NEW q \in Int, NEW i \in Int, NEW o \in Int,
           d + t - q = c + s - p, c + s + o = p + i
    PROVE  d + t + o = q + i
<1>1. d + t = c + s - p + q
    OBVIOUS
<1>2. c + s = p + i - o
    OBVIOUS
<1> QED
    BY <1>1, <1>2

LEMMA MultiplierRange ==
    ASSUME NEW n \in Nat, n # 0, n <= MaxMultiplierBps
    PROVE  n \in 1..MaxMultiplierBps
<1>1. MaxMultiplierBps \in Nat
    BY DEF MaxMultiplierBps
<1> QED
    BY <1>1

LEMMA QuotientIsNatural ==
    ASSUME NEW a \in Nat, NEW b \in Positive
    PROVE  a \div b \in Nat
BY DEF Positive

LEMMA InterestIsNatural ==
    ASSUME NEW p \in Nat, NEW n \in Nat, NEW i \in Nat
    PROVE  InterestOn(p, n, i) \in Nat
<1>1. p * InterestRateBps * n * i \in Nat
    BY ProductIsNatural DEF InterestRateBps
<1>2. 10000 * Year \in Positive
    BY LineAssumption DEF Positive
<1> QED
    BY <1>1, <1>2, QuotientIsNatural DEF InterestOn

LEMMA LoanFields ==
    ASSUME NEW l \in SoundLoan
    PROVE  /\ l \in Loan /\ l.borrower \in Accounts /\ l.merchant \in Accounts
           /\ l.principal \in Nat /\ l.totalOwed \in Nat /\ l.totalRepaid \in Nat
           /\ l.installmentCount \in Nat \ {0} /\ l.installmentsPaid \in Nat
           /\ l.startedAt \in Nat /\ l.interval \in Nat
           /\ l.status \in {"Active", "Repaid", "Liquidated"}
           /\ 0 < l.totalOwed /\ l.principal <= l.totalOwed /\ l.totalRepaid <= l.totalOwed
           /\ Remaining(l) \in Nat /\ Interest(l) \in Nat
BY DEF SoundLoan, Loan, Remaining, Interest, Positive

LEMMA FeeIsNatural ==
    ASSUME NEW l \in SoundLoan, NEW amount \in Nat
    PROVE  FeeOn(l, amount) \in Nat
<1>1. Interest(l) \in Nat /\ l.totalOwed \in Nat /\ 0 < l.totalOwed
    BY LoanFields
<1>2. amount * Interest(l) * ProtocolFeeBps \in Nat
    BY <1>1, ProductIsNatural DEF ProtocolFeeBps
<1>3. l.totalOwed * 10000 \in Positive
    BY <1>1 DEF Positive
<1> QED
    BY <1>2, <1>3, QuotientIsNatural DEF FeeOn

(* The walk up the ladder stops, at the first instalment the money does    *)
(* not cover or at the top.                                                *)
LEMMA WalkStops ==
    ASSUME NEW l, l.installmentCount \in Nat, l.totalRepaid \in Nat,
           \A j \in Nat : ThresholdFor(l, j) \in Int
    PROVE  LET k == InstallmentsEarned(l)
           IN  /\ k \in 0..l.installmentCount
               /\ \A j \in 1..k : l.totalRepaid >= ThresholdFor(l, j)
               /\ k = l.installmentCount \/ l.totalRepaid < ThresholdFor(l, k + 1)
<1> DEFINE T == {k \in Nat : k >= l.installmentCount \/ l.totalRepaid < ThresholdFor(l, k + 1)}
           Stop(k) == /\ \A j \in 1..k : l.totalRepaid >= ThresholdFor(l, j)
                      /\ k = l.installmentCount \/ l.totalRepaid < ThresholdFor(l, k + 1)
<1>1. T \in SUBSET Nat /\ l.installmentCount \in T
    OBVIOUS
<1>2. PICK k \in T : \A y \in T : k <= y
    <2> HIDE DEF T
    <2> QED BY <1>1, LeastNatural
<1>3. k \in Nat /\ k <= l.installmentCount
    BY <1>1, <1>2
<1>4. ASSUME NEW j \in 1..k PROVE l.totalRepaid >= ThresholdFor(l, j)
    <2>1. j - 1 \in Nat /\ j - 1 < k /\ (j - 1) + 1 = j
        BY <1>3
    <2>2. j - 1 \notin T
        BY <1>2, <1>3, <2>1
    <2>3. ~(l.totalRepaid < ThresholdFor(l, (j - 1) + 1))
        BY <2>1, <2>2
    <2>4. ThresholdFor(l, j) \in Int
        BY <2>1
    <2> QED BY <2>1, <2>3, <2>4
<1>5. k = l.installmentCount \/ l.totalRepaid < ThresholdFor(l, k + 1)
    BY <1>2, <1>3
<1>6. k \in 0..l.installmentCount /\ Stop(k)
    BY <1>3, <1>4, <1>5
<1>7. InstallmentsEarned(l) = CHOOSE m \in 0..l.installmentCount : Stop(m)
    BY DEF InstallmentsEarned
<1> HIDE DEF Stop
<1>8. InstallmentsEarned(l) \in 0..l.installmentCount /\ Stop(InstallmentsEarned(l))
    BY <1>6, <1>7
<1> QED
    BY <1>8 DEF Stop

LEMMA ThresholdIsNatural ==
    ASSUME NEW l, l.installmentCount \in Nat \ {0}, l.totalOwed \in Nat, NEW k \in Nat
    PROVE  ThresholdFor(l, k) \in Nat
<1>1. l.totalOwed * k \in Nat
    BY ProductIsNatural
<1>2. l.totalOwed * k + l.installmentCount - 1 \in Nat
    BY <1>1
<1>3. (l.totalOwed * k + l.installmentCount - 1) \div l.installmentCount \in Nat
    BY <1>2, QuotientIsNatural DEF Positive
<1> QED
    BY <1>3 DEF ThresholdFor

-----------------------------------------------------------------------------
(* Money moving between wallets.                                           *)

Ledgers == [Wallets -> Nat]

LEMMA WalletsAre ==
    /\ Contract \in Wallets /\ Vault \in Wallets /\ Contract # Vault
    /\ Accounts \subseteq Wallets /\ Contract \notin Accounts /\ Vault \notin Accounts
    /\ Contract \in Spenders /\ Vault \in Spenders
BY PartiesAssumption DEF Contract, Vault, Wallets, Holders, Accounts, Spenders

LEMMA MoveEffect ==
    ASSUME NEW ledger \in Ledgers, NEW from \in Wallets, NEW to \in Wallets, from # to,
           NEW amount \in Nat, amount <= ledger[from]
    PROVE  LET new == Moved(ledger, from, to, amount)
           IN  /\ new \in Ledgers
               /\ new[from] = ledger[from] - amount
               /\ new[to] = ledger[to] + amount
               /\ \A w \in Wallets : w \notin {from, to} => new[w] = ledger[w]
BY DEF Moved, Ledgers

LEMMA SendEffect ==
    ASSUME usdc \in Ledgers, NEW from \in Accounts, NEW to \in Accounts,
           NEW amount \in Nat, Transfer(from, to, amount)
    PROVE  usdc' \in Ledgers /\ usdc'[Contract] = usdc[Contract] /\ usdc'[Vault] = usdc[Vault]
<1>1. CASE from = to
    BY <1>1, WalletsAre DEF Transfer, Moved, Ledgers
<1>2. CASE from # to
    BY <1>2, WalletsAre, MoveEffect DEF Transfer
<1> QED
    BY <1>1, <1>2

LEMMA SpentIsTyped ==
    ASSUME allowance \in [Spenders -> [Accounts -> Nat]],
           NEW s \in Spenders, NEW a \in Accounts, NEW amount \in Nat, amount <= allowance[s][a]
    PROVE  Spent(s, a, amount) \in [Spenders -> [Accounts -> Nat]]
BY DEF Spent

(* The vault's book: one account's position changes, and so does the sum.  *)
LEMMA LockedUpdate ==
    ASSUME lockedOf \in [Accounts -> Nat], NEW a \in Accounts, NEW v \in Nat
    PROVE  /\ [lockedOf EXCEPT ![a] = v] \in [Accounts -> Nat]
           /\ SumTo(lockedOf, NumAccounts) \in Nat
           /\ lockedOf[a] <= SumTo(lockedOf, NumAccounts)
           /\ SumTo([lockedOf EXCEPT ![a] = v], NumAccounts)
                = SumTo(lockedOf, NumAccounts) + v - lockedOf[a]
<1> DEFINE new == [lockedOf EXCEPT ![a] = v]
<1>1. /\ lockedOf \in [1..NumAccounts -> Nat] /\ new \in [1..NumAccounts -> Nat]
      /\ lockedOf \in [1..NumAccounts -> Int] /\ new \in [1..NumAccounts -> Int]
      /\ a \in 1..NumAccounts
    BY DEF Accounts
<1>2. (\A i \in 1..NumAccounts : i # a => new[i] = lockedOf[i]) /\ new[a] = v
    BY DEF Accounts
<1> HIDE DEF new
<1>3. SumTo(lockedOf, NumAccounts) \in Nat /\ \A i \in 1..NumAccounts : lockedOf[i] <= SumTo(lockedOf, NumAccounts)
    BY <1>1, PartiesAssumption, SumBounds
<1>4. SumTo(new, NumAccounts) = SumTo(lockedOf, NumAccounts) + new[a] - lockedOf[a]
    BY <1>1, <1>2, PartiesAssumption, SumUpdate
<1> QED
    BY <1>1, <1>2, <1>3, <1>4 DEF new, Accounts

-----------------------------------------------------------------------------
(* Sums over the book.                                                     *)

DebtOn(l, a) == IF l.status = "Active" /\ l.borrower = a THEN Remaining(l) ELSE 0
LossOn(l) == IF l.status = "Liquidated" THEN Remaining(l) ELSE 0

LEMMA Summands ==
    ASSUME NEW book \in Seq(SoundLoan), NEW a
    PROVE  /\ ActiveDebt(book, a) \in [1..Len(book) -> Nat]
           /\ WrittenOff(book) \in [1..Len(book) -> Nat]
           /\ PaidIn(book) \in [1..Len(book) -> Nat]
           /\ PaidOut(book) \in [1..Len(book) -> Nat]
           /\ \A i \in 1..Len(book) :
                /\ ActiveDebt(book, a)[i] = DebtOn(book[i], a)
                /\ WrittenOff(book)[i] = LossOn(book[i])
                /\ PaidIn(book)[i] = book[i].totalRepaid
                /\ PaidOut(book)[i] = book[i].principal
<1>1. \A i \in 1..Len(book) : /\ Remaining(book[i]) \in Nat
                              /\ book[i].totalRepaid \in Nat /\ book[i].principal \in Nat
    BY LoanFields
<1> QED
    BY <1>1 DEF ActiveDebt, WrittenOff, PaidIn, PaidOut, DebtOn, LossOn

(* What an active loan still owes is part of its borrower's debt.          *)
LEMMA ActiveIsCounted ==
    ASSUME NEW book \in Seq(SoundLoan), NEW i \in 1..Len(book), book[i].status = "Active"
    PROVE  Remaining(book[i]) <= SumTo(ActiveDebt(book, book[i].borrower), Len(book))
<1>1. Len(book) \in Nat
    OBVIOUS
<1>2. \A k \in 1..Len(book) :
        ActiveDebt(book, book[i].borrower)[k] <= SumTo(ActiveDebt(book, book[i].borrower), Len(book))
    BY <1>1, Summands, SumBounds
<1> QED
    BY <1>2 DEF ActiveDebt

(* A new loan adds itself to the sums.                                     *)
LEMMA SumsAfterOpen ==
    ASSUME NEW book \in Seq(SoundLoan), NEW l \in SoundLoan, NEW a
    PROVE  LET new == Append(book, l)
           IN  /\ new \in Seq(SoundLoan)
               /\ SumTo(ActiveDebt(new, a), Len(new))
                    = SumTo(ActiveDebt(book, a), Len(book)) + DebtOn(l, a)
               /\ SumTo(WrittenOff(new), Len(new)) = SumTo(WrittenOff(book), Len(book)) + LossOn(l)
               /\ SumTo(PaidIn(new), Len(new)) = SumTo(PaidIn(book), Len(book)) + l.totalRepaid
               /\ SumTo(PaidOut(new), Len(new)) = SumTo(PaidOut(book), Len(book)) + l.principal
<1> DEFINE n == Len(book)
           new == Append(book, l)
<1>1. n \in Nat /\ new \in Seq(SoundLoan) /\ Len(new) = n+1
    OBVIOUS
<1>2. (\A i \in 1..n : new[i] = book[i]) /\ new[n+1] = l
    OBVIOUS
<1> HIDE DEF new
<1>3. /\ ActiveDebt(new, a) \in [1..(n+1) -> Int] /\ WrittenOff(new) \in [1..(n+1) -> Int]
      /\ PaidIn(new) \in [1..(n+1) -> Int] /\ PaidOut(new) \in [1..(n+1) -> Int]
      /\ \A i \in 1..(n+1) :
            /\ ActiveDebt(new, a)[i] = DebtOn(new[i], a) /\ WrittenOff(new)[i] = LossOn(new[i])
            /\ PaidIn(new)[i] = new[i].totalRepaid /\ PaidOut(new)[i] = new[i].principal
    <2>1. /\ ActiveDebt(new, a) \in [1..Len(new) -> Nat] /\ WrittenOff(new) \in [1..Len(new) -> Nat]
          /\ PaidIn(new) \in [1..Len(new) -> Nat] /\ PaidOut(new) \in [1..Len(new) -> Nat]
          /\ \A i \in 1..Len(new) :
                /\ ActiveDebt(new, a)[i] = DebtOn(new[i], a) /\ WrittenOff(new)[i] = LossOn(new[i])
                /\ PaidIn(new)[i] = new[i].totalRepaid /\ PaidOut(new)[i] = new[i].principal
        BY <1>1, Summands
    <2> QED BY <2>1, <1>1
<1>4. /\ ActiveDebt(book, a) \in [1..n -> Int] /\ WrittenOff(book) \in [1..n -> Int]
      /\ PaidIn(book) \in [1..n -> Int] /\ PaidOut(book) \in [1..n -> Int]
      /\ \A i \in 1..n :
            /\ ActiveDebt(book, a)[i] = DebtOn(book[i], a) /\ WrittenOff(book)[i] = LossOn(book[i])
            /\ PaidIn(book)[i] = book[i].totalRepaid /\ PaidOut(book)[i] = book[i].principal
    BY Summands
<1>5. \A i \in 1..n :
        /\ ActiveDebt(new, a)[i] = ActiveDebt(book, a)[i]
        /\ WrittenOff(new)[i] = WrittenOff(book)[i]
        /\ PaidIn(new)[i] = PaidIn(book)[i] /\ PaidOut(new)[i] = PaidOut(book)[i]
    <2>1. \A i \in 1..n : i \in 1..(n+1) /\ new[i] = book[i]
        BY <1>1, <1>2
    <2> HIDE DEF n
    <2> QED BY <2>1, <1>3, <1>4
<1>6. /\ ActiveDebt(new, a)[n+1] = DebtOn(l, a) /\ WrittenOff(new)[n+1] = LossOn(l)
      /\ PaidIn(new)[n+1] = l.totalRepaid /\ PaidOut(new)[n+1] = l.principal
    BY <1>1, <1>2, <1>3
<1> HIDE DEF n
<1>7. SumTo(ActiveDebt(new, a), n+1) = SumTo(ActiveDebt(book, a), n) + ActiveDebt(new, a)[n+1]
    BY <1>1, <1>3, <1>4, <1>5, SumExtend
<1>8. SumTo(WrittenOff(new), n+1) = SumTo(WrittenOff(book), n) + WrittenOff(new)[n+1]
    BY <1>1, <1>3, <1>4, <1>5, SumExtend
<1>9. SumTo(PaidIn(new), n+1) = SumTo(PaidIn(book), n) + PaidIn(new)[n+1]
    BY <1>1, <1>3, <1>4, <1>5, SumExtend
<1>10. SumTo(PaidOut(new), n+1) = SumTo(PaidOut(book), n) + PaidOut(new)[n+1]
    BY <1>1, <1>3, <1>4, <1>5, SumExtend
<1> QED
    BY <1>1, <1>6, <1>7, <1>8, <1>9, <1>10 DEF n, new

(* A loan that changes moves them by its own difference.                   *)
LEMMA SumsAfterChange ==
    ASSUME NEW book \in Seq(SoundLoan), NEW id \in 1..Len(book), NEW l \in SoundLoan, NEW a
    PROVE  LET new == [book EXCEPT ![id] = l]
           IN  /\ new \in Seq(SoundLoan) /\ Len(new) = Len(book)
               /\ SumTo(ActiveDebt(new, a), Len(book))
                    = SumTo(ActiveDebt(book, a), Len(book)) + DebtOn(l, a) - DebtOn(book[id], a)
               /\ SumTo(WrittenOff(new), Len(book))
                    = SumTo(WrittenOff(book), Len(book)) + LossOn(l) - LossOn(book[id])
               /\ SumTo(PaidIn(new), Len(book))
                    = SumTo(PaidIn(book), Len(book)) + l.totalRepaid - book[id].totalRepaid
               /\ SumTo(PaidOut(new), Len(book))
                    = SumTo(PaidOut(book), Len(book)) + l.principal - book[id].principal
<1> DEFINE n == Len(book)
           new == [book EXCEPT ![id] = l]
<1>1. n \in Nat /\ id \in 1..n /\ new \in Seq(SoundLoan) /\ Len(new) = n
    OBVIOUS
<1>2. (\A i \in 1..n : i # id => new[i] = book[i]) /\ new[id] = l
    OBVIOUS
<1> HIDE DEF new
<1>3. /\ ActiveDebt(new, a) \in [1..n -> Int] /\ WrittenOff(new) \in [1..n -> Int]
      /\ PaidIn(new) \in [1..n -> Int] /\ PaidOut(new) \in [1..n -> Int]
      /\ \A i \in 1..n :
            /\ ActiveDebt(new, a)[i] = DebtOn(new[i], a) /\ WrittenOff(new)[i] = LossOn(new[i])
            /\ PaidIn(new)[i] = new[i].totalRepaid /\ PaidOut(new)[i] = new[i].principal
    <2>1. /\ ActiveDebt(new, a) \in [1..Len(new) -> Nat] /\ WrittenOff(new) \in [1..Len(new) -> Nat]
          /\ PaidIn(new) \in [1..Len(new) -> Nat] /\ PaidOut(new) \in [1..Len(new) -> Nat]
          /\ \A i \in 1..Len(new) :
                /\ ActiveDebt(new, a)[i] = DebtOn(new[i], a) /\ WrittenOff(new)[i] = LossOn(new[i])
                /\ PaidIn(new)[i] = new[i].totalRepaid /\ PaidOut(new)[i] = new[i].principal
        BY <1>1, Summands
    <2> QED BY <2>1, <1>1
<1>4. /\ ActiveDebt(book, a) \in [1..n -> Int] /\ WrittenOff(book) \in [1..n -> Int]
      /\ PaidIn(book) \in [1..n -> Int] /\ PaidOut(book) \in [1..n -> Int]
      /\ \A i \in 1..n :
            /\ ActiveDebt(book, a)[i] = DebtOn(book[i], a) /\ WrittenOff(book)[i] = LossOn(book[i])
            /\ PaidIn(book)[i] = book[i].totalRepaid /\ PaidOut(book)[i] = book[i].principal
    BY Summands
<1>5. \A i \in 1..n : i # id =>
        /\ ActiveDebt(new, a)[i] = ActiveDebt(book, a)[i]
        /\ WrittenOff(new)[i] = WrittenOff(book)[i]
        /\ PaidIn(new)[i] = PaidIn(book)[i] /\ PaidOut(new)[i] = PaidOut(book)[i]
    BY <1>2, <1>3, <1>4
<1>6. /\ ActiveDebt(new, a)[id] = DebtOn(l, a) /\ WrittenOff(new)[id] = LossOn(l)
      /\ PaidIn(new)[id] = l.totalRepaid /\ PaidOut(new)[id] = l.principal
      /\ ActiveDebt(book, a)[id] = DebtOn(book[id], a) /\ WrittenOff(book)[id] = LossOn(book[id])
      /\ PaidIn(book)[id] = book[id].totalRepaid /\ PaidOut(book)[id] = book[id].principal
    BY <1>1, <1>2, <1>3, <1>4
<1> HIDE DEF n
<1>7. SumTo(ActiveDebt(new, a), n)
        = SumTo(ActiveDebt(book, a), n) + ActiveDebt(new, a)[id] - ActiveDebt(book, a)[id]
    BY <1>1, <1>3, <1>4, <1>5, SumUpdate
<1>8. SumTo(WrittenOff(new), n)
        = SumTo(WrittenOff(book), n) + WrittenOff(new)[id] - WrittenOff(book)[id]
    BY <1>1, <1>3, <1>4, <1>5, SumUpdate
<1>9. SumTo(PaidIn(new), n) = SumTo(PaidIn(book), n) + PaidIn(new)[id] - PaidIn(book)[id]
    BY <1>1, <1>3, <1>4, <1>5, SumUpdate
<1>10. SumTo(PaidOut(new), n) = SumTo(PaidOut(book), n) + PaidOut(new)[id] - PaidOut(book)[id]
    BY <1>1, <1>3, <1>4, <1>5, SumUpdate
<1> QED
    BY <1>1, <1>6, <1>7, <1>8, <1>9, <1>10 DEF n, new

LEMMA SumsAreNatural ==
    ASSUME NEW book \in Seq(SoundLoan), NEW a
    PROVE  /\ SumTo(ActiveDebt(book, a), Len(book)) \in Nat
           /\ SumTo(WrittenOff(book), Len(book)) \in Nat
           /\ SumTo(PaidIn(book), Len(book)) \in Nat
           /\ SumTo(PaidOut(book), Len(book)) \in Nat
<1>1. Len(book) \in Nat
    OBVIOUS
<1> QED
    BY <1>1, Summands, SumBounds

-----------------------------------------------------------------------------
(* One lemma per action.                                                   *)

TypedState ==
           /\ now \in Nat /\ loans \in Seq(SoundLoan) /\ Len(loans) \in Nat
           /\ activeDebtOf \in [Accounts -> Nat] /\ badDebt \in Nat
           /\ protocolFeesAccrued \in Nat /\ swept \in Nat /\ supplied \in Int
           /\ originators \subseteq Accounts /\ treasury \in Accounts
           /\ usdc \in Ledgers /\ allowance \in [Spenders -> [Accounts -> Nat]]
           /\ lockedOf \in [Accounts -> Nat] /\ seizedOf \in [Accounts -> Nat]
           /\ totalLocked \in Nat /\ profile \in [Accounts -> Profile]
           /\ usdc[Contract] \in Nat /\ usdc[Vault] \in Nat
           /\ usdc[Vault] = totalLocked /\ totalLocked = SumTo(lockedOf, NumAccounts)

LEMMA Facts == IInv => TypedState
BY WalletsAre
   DEF TypedState, IInv, TypeOK, CoinTypeOK, VaultTypeOK, ScoreTypeOK, LineBooksBalance, Ledgers

LEMMA SoundLoansAreLoans ==
    ASSUME NEW book \in Seq(SoundLoan)
    PROVE  book \in Seq(Loan)
<1>1. SoundLoan \subseteq Loan
    BY DEF SoundLoan
<1> QED
    BY <1>1

LEMMA OpenKeepsBooks ==
    ASSUME IInv, NEW b \in Borrowers, NEW m \in Merchants, NEW principal \in Principals,
           NEW count \in Counts, NEW interval \in Intervals,
           CreateLoan(b, m, principal, count, interval)
    PROVE  IInv'
<1> DEFINE owed == principal + InterestOn(principal, count, interval)
           l == [borrower |-> b, merchant |-> m, principal |-> principal,
                 totalOwed |-> owed, totalRepaid |-> 0,
                 installmentCount |-> count, installmentsPaid |-> 0,
                 startedAt |-> now, interval |-> interval, status |-> "Active"]
<1>0. /\ now \in Nat /\ loans \in Seq(SoundLoan) /\ activeDebtOf \in [Accounts -> Nat]
      /\ badDebt \in Nat /\ swept \in Nat /\ supplied \in Int
      /\ usdc \in Ledgers /\ allowance \in [Spenders -> [Accounts -> Nat]]
      /\ usdc[Contract] \in Nat
    BY Facts DEF TypedState
<1>1. /\ principal # 0 /\ count # 0 /\ principal <= usdc[Contract]
      /\ loans' = Append(loans, l)
      /\ activeDebtOf' = [activeDebtOf EXCEPT ![b] = @ + owed]
      /\ usdc' = Moved(usdc, Contract, m, principal)
      /\ UNCHANGED <<now, protocolFeesAccrued, badDebt, engineParams, historyVars,
                     allowance, vaultVars, scoreVars, merchants>>
    BY DEF CreateLoan
<1>2. /\ b \in Accounts /\ m \in Accounts /\ principal \in Nat /\ count \in Nat \ {0}
      /\ interval \in Nat /\ InterestOn(principal, count, interval) \in Nat
    <2>1. /\ b \in Accounts /\ m \in Accounts /\ principal \in Nat /\ count \in Nat
          /\ interval \in Nat
        BY LineAssumption, RegistryAssumption
    <2> QED BY <2>1, <1>1, InterestIsNatural
<1>3. owed \in Nat /\ principal <= owed /\ 0 < principal
    BY <1>1, <1>2
<1> HIDE DEF owed
<1>4. /\ l \in SoundLoan /\ l.totalRepaid = 0 /\ l.principal = principal /\ LossOn(l) = 0
      /\ \A a \in Accounts : DebtOn(l, a) = IF a = b THEN owed ELSE 0
    <2>1. l \in Loan
        BY <1>0, <1>2, <1>3 DEF Loan, Positive
    <2>2. l \in SoundLoan
        BY <1>2, <1>3, <2>1 DEF SoundLoan
    <2>3. l.totalRepaid = 0 /\ l.principal = principal /\ LossOn(l) = 0
        BY DEF LossOn
    <2>4. \A a \in Accounts : DebtOn(l, a) = IF a = b THEN owed ELSE 0
        BY <1>3 DEF DebtOn, Remaining
    <2> QED BY <2>2, <2>3, <2>4
<1> HIDE DEF l
<1>5. ASSUME NEW a \in Accounts
      PROVE  /\ loans' \in Seq(SoundLoan)
             /\ SumTo(ActiveDebt(loans', a), Len(loans'))
                    = SumTo(ActiveDebt(loans, a), Len(loans)) + DebtOn(l, a)
             /\ SumTo(WrittenOff(loans'), Len(loans')) = SumTo(WrittenOff(loans), Len(loans)) + LossOn(l)
             /\ SumTo(PaidIn(loans'), Len(loans')) = SumTo(PaidIn(loans), Len(loans)) + l.totalRepaid
             /\ SumTo(PaidOut(loans'), Len(loans')) = SumTo(PaidOut(loans), Len(loans)) + l.principal
    BY <1>1, <1>4, <1>0, SumsAfterOpen
<1>6. /\ SumTo(WrittenOff(loans), Len(loans)) \in Nat /\ SumTo(PaidIn(loans), Len(loans)) \in Nat
      /\ SumTo(PaidOut(loans), Len(loans)) \in Nat
    BY <1>0, SumsAreNatural
<1>7. /\ usdc' \in Ledgers /\ usdc'[Contract] = usdc[Contract] - principal
      /\ usdc'[Vault] = usdc[Vault]
    <2>1. m # Contract /\ m # Vault /\ m \in Wallets
        BY <1>2, WalletsAre
    <2> QED BY <1>1, <1>2, <2>1, <1>0, WalletsAre, MoveEffect
<1>8. TypeOK' /\ loans' \in Seq(SoundLoan)
    <2>1. loans' \in Seq(SoundLoan) /\ loans' \in Seq(Loan)
        BY <1>2, <1>5, SoundLoansAreLoans
    <2>2. activeDebtOf' \in [Accounts -> Nat]
        BY <1>1, <1>2, <1>3, <1>0
    <2>3. CoinTypeOK'
        BY <1>1, <1>7, <1>0 DEF CoinTypeOK, Ledgers
    <2>4. VaultTypeOK' /\ ScoreTypeOK' /\ RegistryTypeOK'
        BY <1>1 DEF IInv, TypeOK, VaultTypeOK, ScoreTypeOK, RegistryTypeOK,
                    vaultVars, vaultBook, vaultParams, scoreVars, scoreParams
    <2> QED BY <1>1, <2>1, <2>2, <2>3, <2>4 DEF IInv, TypeOK, engineParams, historyVars
<1>9. DebtsAreExact'
    <2>1. \A a \in Accounts : activeDebtOf'[a] = SumTo(ActiveDebt(loans', a), Len(loans'))
        <3>1. ASSUME NEW a \in Accounts
              PROVE activeDebtOf'[a] = SumTo(ActiveDebt(loans', a), Len(loans'))
            <4>1. activeDebtOf[a] = SumTo(ActiveDebt(loans, a), Len(loans)) /\ activeDebtOf[a] \in Nat
                BY <1>0 DEF IInv, DebtsAreExact
            <4>2. activeDebtOf'[a] = activeDebtOf[a] + (IF a = b THEN owed ELSE 0)
                BY <1>1, <1>2, <1>3, <4>1, <1>0
            <4> QED BY <1>4, <1>5, <4>1, <4>2
        <3> QED BY <3>1
    <2>2. badDebt' = SumTo(WrittenOff(loans'), Len(loans'))
        BY <1>1, <1>2, <1>4, <1>5, <1>6 DEF IInv, DebtsAreExact
    <2> QED BY <2>1, <2>2 DEF DebtsAreExact
<1>10. LineBooksBalance'
    <2>1. /\ swept' = swept /\ supplied' = supplied
          /\ totalLocked' = totalLocked /\ lockedOf' = lockedOf
        BY <1>1 DEF historyVars, vaultVars, vaultBook
    <2>2. usdc'[Contract] + swept + SumTo(PaidOut(loans'), Len(loans'))
            = supplied + SumTo(PaidIn(loans'), Len(loans'))
        <3>1. /\ SumTo(PaidIn(loans'), Len(loans')) = SumTo(PaidIn(loans), Len(loans))
              /\ SumTo(PaidOut(loans'), Len(loans')) = SumTo(PaidOut(loans), Len(loans)) + principal
            BY <1>2, <1>4, <1>5, <1>6
        <3>2. usdc[Contract] + swept + SumTo(PaidOut(loans), Len(loans))
                = supplied + SumTo(PaidIn(loans), Len(loans))
            BY DEF IInv, LineBooksBalance
        <3>3. /\ usdc[Contract] \in Nat /\ swept \in Nat /\ supplied \in Int /\ principal \in Nat
              /\ SumTo(PaidIn(loans), Len(loans)) \in Nat /\ SumTo(PaidOut(loans), Len(loans)) \in Nat
            BY <1>0, <1>2, <1>6
        <3>4. usdc'[Contract] = usdc[Contract] - principal
            BY <1>7
        <3> QED BY <3>1, <3>2, <3>3, <3>4
    <2> QED BY <1>7, <2>1, <2>2 DEF IInv, LineBooksBalance
<1> QED
    BY <1>8, <1>9, <1>10 DEF IInv

(* What a repayment and a liquidation share: one active loan changes, its  *)
(* borrower's debt falls by as much as the loan's, and the cash that came  *)
(* in is written on the loan.                                              *)
LEMMA ChangeKeepsSums ==
    ASSUME IInv, NEW id \in LoanIds, loans[id].status = "Active", NEW new \in SoundLoan,
           loans' = [loans EXCEPT ![id] = new],
           new.borrower = loans[id].borrower, new.principal = loans[id].principal,
           NEW drop \in Nat, new.status = "Active" => Remaining(new) = Remaining(loans[id]) - drop,
           new.status # "Active" => drop = Remaining(loans[id]),
           activeDebtOf' = [activeDebtOf EXCEPT ![loans[id].borrower] = @ - drop],
           badDebt' = badDebt + LossOn(new),
           NEW got \in Nat, new.totalRepaid = loans[id].totalRepaid + got,
           usdc'[Contract] = usdc[Contract] + got, UNCHANGED <<supplied, swept>>
    PROVE  /\ loans' \in Seq(SoundLoan) /\ activeDebtOf' \in [Accounts -> Nat] /\ badDebt' \in Nat
           /\ DebtsAreExact'
           /\ usdc'[Contract] + swept' + SumTo(PaidOut(loans'), Len(loans'))
                = supplied' + SumTo(PaidIn(loans'), Len(loans'))
<1> DEFINE l == loans[id]
           b == l.borrower
<1>0. /\ loans \in Seq(SoundLoan) /\ id \in 1..Len(loans) /\ activeDebtOf \in [Accounts -> Nat]
      /\ badDebt \in Nat /\ swept \in Nat /\ supplied \in Int /\ usdc[Contract] \in Nat
    BY Facts DEF TypedState, LoanIds
<1>1. l \in SoundLoan /\ b \in Accounts /\ Remaining(l) \in Nat
    <2>1. l \in SoundLoan
        BY <1>0
    <2> QED BY <2>1, LoanFields
<1>2. ASSUME NEW a \in Accounts
      PROVE  /\ loans' \in Seq(SoundLoan) /\ Len(loans') = Len(loans)
             /\ SumTo(ActiveDebt(loans', a), Len(loans))
                  = SumTo(ActiveDebt(loans, a), Len(loans)) + DebtOn(new, a) - DebtOn(l, a)
             /\ SumTo(WrittenOff(loans'), Len(loans))
                  = SumTo(WrittenOff(loans), Len(loans)) + LossOn(new) - LossOn(l)
             /\ SumTo(PaidIn(loans'), Len(loans))
                  = SumTo(PaidIn(loans), Len(loans)) + new.totalRepaid - l.totalRepaid
             /\ SumTo(PaidOut(loans'), Len(loans))
                  = SumTo(PaidOut(loans), Len(loans)) + new.principal - l.principal
    BY <1>0, SumsAfterChange
<1>3. /\ LossOn(l) = 0 /\ LossOn(new) \in Nat
      /\ l.totalRepaid \in Nat /\ l.principal \in Nat
    BY <1>1, LoanFields DEF LossOn
<1>4. ASSUME NEW a \in Accounts
      PROVE  /\ activeDebtOf'[a] \in Nat
             /\ activeDebtOf'[a] = SumTo(ActiveDebt(loans', a), Len(loans'))
    <2>1. activeDebtOf[a] = SumTo(ActiveDebt(loans, a), Len(loans)) /\ activeDebtOf[a] \in Nat
        BY <1>0 DEF IInv, DebtsAreExact
    <2>2. CASE a = b
        <3>1. activeDebtOf'[a] = activeDebtOf[a] - drop
            BY <1>0, <1>1, <2>2
        <3>2. DebtOn(l, a) = Remaining(l)
            BY <2>2 DEF DebtOn
        <3>3. DebtOn(new, a) = Remaining(l) - drop
            BY <1>1, <2>2 DEF DebtOn
        <3>4. SumTo(ActiveDebt(loans', a), Len(loans')) = SumTo(ActiveDebt(loans, a), Len(loans)) - drop
            <4>1. /\ Len(loans') = Len(loans)
                  /\ SumTo(ActiveDebt(loans', a), Len(loans))
                        = SumTo(ActiveDebt(loans, a), Len(loans)) + DebtOn(new, a) - DebtOn(l, a)
                BY <1>2
            <4> QED BY <1>1, <2>1, <3>2, <3>3, <4>1
        <3>5. SumTo(ActiveDebt(loans', a), Len(loans')) \in Nat
            BY <1>2, SumsAreNatural
        <3> QED BY <2>1, <3>1, <3>4, <3>5
    <2>3. CASE a # b
        <3>1. activeDebtOf'[a] = activeDebtOf[a]
            BY <1>0, <2>3
        <3>2. DebtOn(l, a) = 0 /\ DebtOn(new, a) = 0
            BY <2>3 DEF DebtOn
        <3>3. SumTo(ActiveDebt(loans', a), Len(loans')) = SumTo(ActiveDebt(loans, a), Len(loans))
            <4>1. /\ Len(loans') = Len(loans)
                  /\ SumTo(ActiveDebt(loans', a), Len(loans))
                        = SumTo(ActiveDebt(loans, a), Len(loans)) + DebtOn(new, a) - DebtOn(l, a)
                BY <1>2
            <4> QED BY <2>1, <3>2, <4>1
        <3> QED BY <2>1, <3>1, <3>3
    <2> QED BY <2>2, <2>3
<1>5. /\ loans' \in Seq(SoundLoan) /\ Len(loans') = Len(loans)
      /\ SumTo(WrittenOff(loans'), Len(loans')) = SumTo(WrittenOff(loans), Len(loans)) + LossOn(new)
      /\ SumTo(PaidIn(loans'), Len(loans')) = SumTo(PaidIn(loans), Len(loans)) + got
      /\ SumTo(PaidOut(loans'), Len(loans')) = SumTo(PaidOut(loans), Len(loans))
    <2>1. /\ SumTo(WrittenOff(loans), Len(loans)) \in Nat /\ SumTo(PaidIn(loans), Len(loans)) \in Nat
          /\ SumTo(PaidOut(loans), Len(loans)) \in Nat
        BY <1>0, SumsAreNatural
    <2>2. /\ SumTo(WrittenOff(loans'), Len(loans))
                  = SumTo(WrittenOff(loans), Len(loans)) + LossOn(new) - LossOn(l)
          /\ SumTo(PaidIn(loans'), Len(loans))
                  = SumTo(PaidIn(loans), Len(loans)) + new.totalRepaid - l.totalRepaid
          /\ SumTo(PaidOut(loans'), Len(loans))
                  = SumTo(PaidOut(loans), Len(loans)) + new.principal - l.principal
          /\ loans' \in Seq(SoundLoan) /\ Len(loans') = Len(loans)
        BY <1>1, <1>2
    <2> QED BY <1>3, <2>1, <2>2
<1>6. DebtsAreExact' /\ badDebt' \in Nat
    <2>1. badDebt = SumTo(WrittenOff(loans), Len(loans))
        BY DEF IInv, DebtsAreExact
    <2>2. badDebt' = SumTo(WrittenOff(loans'), Len(loans')) /\ badDebt' \in Nat
        BY <1>0, <1>3, <1>5, <2>1
    <2> QED BY <1>4, <2>2 DEF DebtsAreExact
<1>7. activeDebtOf' \in [Accounts -> Nat]
    BY <1>0, <1>4
<1>8. usdc'[Contract] + swept' + SumTo(PaidOut(loans'), Len(loans'))
        = supplied' + SumTo(PaidIn(loans'), Len(loans'))
    <2>1. usdc[Contract] + swept + SumTo(PaidOut(loans), Len(loans))
            = supplied + SumTo(PaidIn(loans), Len(loans))
        BY DEF IInv, LineBooksBalance
    <2>2. SumTo(PaidOut(loans), Len(loans)) \in Nat /\ SumTo(PaidIn(loans), Len(loans)) \in Nat
        BY <1>0, SumsAreNatural
    <2>3. usdc[Contract] \in Nat /\ swept \in Nat /\ supplied \in Int /\ got \in Nat
        BY <1>0
    <2>4. usdc'[Contract] = usdc[Contract] + got /\ swept' = swept /\ supplied' = supplied
        OBVIOUS
    <2>5. /\ SumTo(PaidIn(loans'), Len(loans')) = SumTo(PaidIn(loans), Len(loans)) + got
          /\ SumTo(PaidOut(loans'), Len(loans')) = SumTo(PaidOut(loans), Len(loans))
        BY <1>5
    <2> DEFINE cash == usdc[Contract]
               inn == SumTo(PaidIn(loans), Len(loans))
               out == SumTo(PaidOut(loans), Len(loans))
    <2>6. cash + swept + out = supplied + inn /\ out \in Nat /\ inn \in Nat /\ cash \in Nat
        BY <2>1, <2>2, <2>3
    <2> HIDE DEF cash, inn, out
    <2>7. (cash + got) + swept + out = supplied + (inn + got)
        BY <2>3, <2>6
    <2> QED BY <2>4, <2>5, <2>7 DEF cash, inn, out
<1> QED
    BY <1>5, <1>6, <1>7, <1>8

(* A record function keeps the scores in their range.                      *)
LEMMA ScoresAreTyped ==
    ASSUME profile \in [Accounts -> Profile], NEW a \in Accounts,
           RecordOnTimePayment(a) \/ RecordLatePayment(a) \/ RecordLiquidation(a)
    PROVE  profile' \in [Accounts -> Profile]
<1>1. \A sc \in MinScore..MaxScore, d \in Int : Adjusted(sc, d) \in MinScore..MaxScore
    BY DEF Adjusted, MinScore, MaxScore
<1>2. OnTimeBonus \in Int /\ LatePenalty \in Int /\ DefaultPenalty \in Int
    BY DEF OnTimeBonus, LatePenalty, DefaultPenalty
<1>3. profile[a] \in Profile
    OBVIOUS
<1>4. /\ profile[a].score \in MinScore..MaxScore
      /\ profile[a].onTimePayments + 1 \in Nat /\ profile[a].latePayments + 1 \in Nat
      /\ profile[a].liquidations + 1 \in Nat
    BY <1>3 DEF Profile
<1>5. CASE RecordOnTimePayment(a)
    BY <1>1, <1>2, <1>4, <1>5 DEF RecordOnTimePayment, Profile
<1>6. CASE RecordLatePayment(a)
    BY <1>1, <1>2, <1>4, <1>6 DEF RecordLatePayment, Profile
<1>7. CASE RecordLiquidation(a)
    BY <1>1, <1>2, <1>4, <1>7 DEF RecordLiquidation, Profile
<1> QED
    BY <1>5, <1>6, <1>7
(* What a repayment makes of a loan.                                       *)
LEMMA PaidLoan ==
    ASSUME NEW l \in SoundLoan, l.status = "Active", NEW amount \in Nat, amount <= Remaining(l)
    PROVE  LET paid   == [l EXCEPT !.totalRepaid = @ + amount]
               earned == InstallmentsEarned(paid)
               new    == [paid EXCEPT !.installmentsPaid = earned,
                              !.status = IF paid.totalRepaid >= l.totalOwed THEN "Repaid" ELSE @]
           IN  /\ new \in SoundLoan /\ earned \in 0..l.installmentCount
               /\ new.borrower = l.borrower /\ new.principal = l.principal
               /\ new.totalOwed = l.totalOwed /\ new.installmentCount = l.installmentCount
               /\ new.totalRepaid = l.totalRepaid + amount /\ new.installmentsPaid = earned
               /\ new.status = "Active" => Remaining(new) = Remaining(l) - amount
               /\ new.status # "Active" => amount = Remaining(l)
               /\ new.status \in {"Active", "Repaid"} /\ LossOn(new) = 0
               /\ new.status = "Repaid" <=> new.totalRepaid = new.totalOwed
               /\ \A j \in 1..earned : new.totalRepaid >= ThresholdFor(new, j)
               /\ earned = new.installmentCount \/ new.totalRepaid < ThresholdFor(new, earned + 1)
<1> DEFINE paid   == [l EXCEPT !.totalRepaid = @ + amount]
           earned == InstallmentsEarned(paid)
           new    == [paid EXCEPT !.installmentsPaid = earned,
                          !.status = IF paid.totalRepaid >= l.totalOwed THEN "Repaid" ELSE @]
<1>0. /\ l \in Loan /\ l.totalOwed \in Nat /\ l.totalRepaid \in Nat
      /\ l.installmentCount \in Nat \ {0} /\ l.totalRepaid <= l.totalOwed
      /\ l.totalRepaid + amount \in Nat /\ l.totalRepaid + amount <= l.totalOwed
      /\ Remaining(l) = l.totalOwed - l.totalRepaid
    BY LoanFields DEF Remaining
<1>1. /\ paid \in Loan /\ paid.totalRepaid = l.totalRepaid + amount
      /\ paid.totalOwed = l.totalOwed /\ paid.installmentCount = l.installmentCount
      /\ paid.borrower = l.borrower /\ paid.principal = l.principal /\ paid.status = "Active"
    BY <1>0 DEF Loan
<1> HIDE DEF paid
<1>2. \A j \in Nat : ThresholdFor(paid, j) \in Int
    BY <1>0, <1>1, ThresholdIsNatural
<1>3. /\ earned \in 0..l.installmentCount /\ earned \in Nat
      /\ \A j \in 1..earned : paid.totalRepaid >= ThresholdFor(paid, j)
      /\ earned = paid.installmentCount \/ paid.totalRepaid < ThresholdFor(paid, earned + 1)
    BY <1>0, <1>1, <1>2, WalkStops
<1> HIDE DEF earned
<1>4. /\ new \in Loan /\ new.totalRepaid = paid.totalRepaid
      /\ new.totalOwed = paid.totalOwed /\ new.installmentCount = paid.installmentCount
      /\ new.borrower = paid.borrower /\ new.principal = paid.principal
      /\ new.installmentsPaid = earned
      /\ new.status = IF paid.totalRepaid >= l.totalOwed THEN "Repaid" ELSE "Active"
    BY <1>1, <1>3 DEF Loan
<1> HIDE DEF new
<1>5. \A j \in Nat : ThresholdFor(new, j) = ThresholdFor(paid, j)
    BY <1>4 DEF ThresholdFor
<1>6. new \in SoundLoan
    <2>1. 0 < l.principal /\ l.principal <= l.totalOwed
        BY DEF SoundLoan
    <2>2. new.status = "Repaid" => new.totalRepaid = new.totalOwed
        BY <1>0, <1>1, <1>4
    <2> QED BY <2>1, <2>2, <1>0, <1>1, <1>4 DEF SoundLoan
<1>7. /\ new.status = "Active" => Remaining(new) = Remaining(l) - amount
      /\ new.status # "Active" => amount = Remaining(l)
    BY <1>0, <1>1, <1>4 DEF Remaining
<1>8. /\ new.status \in {"Active", "Repaid"} /\ LossOn(new) = 0
      /\ new.status = "Repaid" <=> new.totalRepaid = new.totalOwed
    BY <1>0, <1>1, <1>4 DEF LossOn
<1>9. /\ \A j \in 1..earned : new.totalRepaid >= ThresholdFor(new, j)
      /\ earned = new.installmentCount \/ new.totalRepaid < ThresholdFor(new, earned + 1)
    <2>1. earned + 1 \in Nat /\ \A j \in 1..earned : j \in Nat
        BY <1>3
    <2> QED BY <2>1, <1>3, <1>4, <1>5
<1> QED
    BY <1>1, <1>3, <1>4, <1>6, <1>7, <1>8, <1>9 DEF paid, earned, new

(* The type invariant from its parts.                                      *)
LEMMA Retyped ==
    ASSUME IInv, now' \in Nat, loans' \in Seq(SoundLoan),
           activeDebtOf' \in [Accounts -> Nat], badDebt' \in Nat, protocolFeesAccrued' \in Nat,
           supplied' \in Int, swept' \in Nat, usdc' \in Ledgers,
           allowance' \in [Spenders -> [Accounts -> Nat]],
           lockedOf' \in [Accounts -> Nat], seizedOf' \in [Accounts -> Nat], totalLocked' \in Nat,
           profile' \in [Accounts -> Profile],
           UNCHANGED <<engineParams, vaultParams, scoreParams, merchants>>
    PROVE  TypeOK' /\ loans' \in Seq(SoundLoan)
<1>1. loans' \in Seq(Loan)
    BY SoundLoansAreLoans
<1>2. CoinTypeOK'
    BY DEF CoinTypeOK, Ledgers
<1>3. VaultTypeOK' /\ ScoreTypeOK' /\ RegistryTypeOK'
    BY DEF IInv, TypeOK, VaultTypeOK, ScoreTypeOK, RegistryTypeOK, vaultParams, scoreParams
<1> QED
    BY <1>1, <1>2, <1>3 DEF IInv, TypeOK, engineParams

LEMMA RepayKeepsBooks ==
    ASSUME IInv, NEW id \in LoanIds, NEW asked \in RepayAmounts, Repay(id, asked)
    PROVE  IInv'
<1> DEFINE l      == loans[id]
           amount == IF asked > Remaining(l) THEN Remaining(l) ELSE asked
           paid   == [l EXCEPT !.totalRepaid = @ + amount]
           earned == InstallmentsEarned(paid)
           new    == [paid EXCEPT !.installmentsPaid = earned,
                          !.status = IF paid.totalRepaid >= l.totalOwed THEN "Repaid" ELSE @]
<1>0. /\ now \in Nat /\ loans \in Seq(SoundLoan) /\ id \in 1..Len(loans)
      /\ protocolFeesAccrued \in Nat /\ swept \in Nat /\ supplied \in Int /\ badDebt \in Nat
      /\ usdc \in Ledgers /\ allowance \in [Spenders -> [Accounts -> Nat]]
      /\ lockedOf \in [Accounts -> Nat] /\ seizedOf \in [Accounts -> Nat]
      /\ totalLocked \in Nat /\ profile \in [Accounts -> Profile]
    BY Facts DEF TypedState, LoanIds
<1>1. /\ l.status = "Active" /\ Pullable(Contract, l.borrower, amount)
      /\ usdc' = Moved(usdc, l.borrower, Contract, amount)
      /\ allowance' = Spent(Contract, l.borrower, amount)
      /\ activeDebtOf' = [activeDebtOf EXCEPT ![l.borrower] = @ - amount]
      /\ protocolFeesAccrued' = protocolFeesAccrued + FeeOn(l, amount)
      /\ ScorePayment(l, earned)
      /\ loans' = [loans EXCEPT ![id] = new]
      /\ UNCHANGED <<now, badDebt, engineParams, historyVars, vaultVars, scoreParams, merchants>>
    BY DEF Repay
<1>2. l \in SoundLoan /\ l.borrower \in Accounts /\ Remaining(l) \in Nat
    <2>1. l \in SoundLoan
        BY <1>0
    <2> QED BY <2>1, LoanFields
<1>3. amount \in Nat /\ amount <= Remaining(l)
    <2>1. asked \in Nat
        BY LineAssumption
    <2> QED BY <2>1, <1>2
<1> HIDE DEF amount
<1>4. /\ new \in SoundLoan
      /\ new.borrower = l.borrower /\ new.principal = l.principal
      /\ new.totalRepaid = l.totalRepaid + amount
      /\ new.status = "Active" => Remaining(new) = Remaining(l) - amount
      /\ new.status # "Active" => amount = Remaining(l)
      /\ LossOn(new) = 0
    BY <1>1, <1>2, <1>3, PaidLoan
<1> HIDE DEF new, earned, paid, l
<1>5. /\ usdc' \in Ledgers /\ usdc'[Contract] = usdc[Contract] + amount
      /\ usdc'[Vault] = usdc[Vault]
    <2>1. l.borrower # Contract /\ l.borrower # Vault /\ l.borrower \in Wallets
        BY <1>2, WalletsAre
    <2>2. amount <= usdc[l.borrower]
        BY <1>1 DEF Pullable
    <2> QED BY <1>0, <1>1, <1>3, <2>1, <2>2, WalletsAre, MoveEffect
<1>6. allowance' \in [Spenders -> [Accounts -> Nat]]
    <2>1. amount <= allowance[Contract][l.borrower]
        BY <1>1 DEF Pullable
    <2> QED BY <1>0, <1>1, <1>2, <1>3, <2>1, WalletsAre, SpentIsTyped
<1>7. profile' \in [Accounts -> Profile]
    BY <1>0, <1>1, <1>2, ScoresAreTyped DEF ScorePayment
<1>8. protocolFeesAccrued' \in Nat
    <2>1. FeeOn(l, amount) \in Nat
        BY <1>2, <1>3, FeeIsNatural
    <2> QED BY <1>0, <1>1, <2>1
<1>9. /\ loans' \in Seq(SoundLoan) /\ activeDebtOf' \in [Accounts -> Nat] /\ badDebt' \in Nat
      /\ DebtsAreExact'
      /\ usdc'[Contract] + swept' + SumTo(PaidOut(loans'), Len(loans'))
           = supplied' + SumTo(PaidIn(loans'), Len(loans'))
    <2>1. badDebt' = badDebt + LossOn(new) /\ supplied' = supplied /\ swept' = swept
        BY <1>0, <1>1, <1>4 DEF historyVars
    <2> QED BY <1>1, <1>3, <1>4, <1>5, <2>1, ChangeKeepsSums DEF l
<1>10. /\ lockedOf' = lockedOf /\ seizedOf' = seizedOf /\ totalLocked' = totalLocked
       /\ swept' = swept /\ supplied' = supplied /\ now' = now
       /\ UNCHANGED <<engineParams, vaultParams, scoreParams, merchants>>
    BY <1>1 DEF vaultVars, vaultBook, historyVars
<1>11. TypeOK' /\ loans' \in Seq(SoundLoan)
    BY <1>0, <1>5, <1>6, <1>7, <1>8, <1>9, <1>10, Retyped
<1>12. LineBooksBalance'
    BY <1>5, <1>9, <1>10 DEF IInv, LineBooksBalance
<1> QED
    BY <1>9, <1>11, <1>12 DEF IInv
(* What a liquidation draws on, and what it makes of the loan.             *)
LEMMA DrawnUpTo ==
    ASSUME NEW b \in Accounts, NEW wanted \in Nat, usdc \in Ledgers,
           allowance \in [Spenders -> [Accounts -> Nat]], lockedOf \in [Accounts -> Nat]
    PROVE  LET take   == Recoverable(b, wanted)
               seized == FromVault(b, wanted - take)
           IN  /\ take \in Nat /\ take <= usdc[b] /\ take <= allowance[Contract][b]
               /\ seized \in Nat /\ seized <= lockedOf[b] /\ take + seized <= wanted
<1> DEFINE take   == Recoverable(b, wanted)
           seized == FromVault(b, wanted - take)
<1>1. usdc[b] \in Nat /\ allowance[Contract][b] \in Nat /\ lockedOf[b] \in Nat
    BY WalletsAre DEF Ledgers
<1>2. take \in Nat /\ take <= usdc[b] /\ take <= allowance[Contract][b] /\ take <= wanted
    BY <1>1 DEF Recoverable, Least
<1> HIDE DEF take
<1>3. seized \in Nat /\ seized <= lockedOf[b] /\ take + seized <= wanted
    BY <1>1, <1>2 DEF FromVault, Seizable
<1> QED
    BY <1>2, <1>3 DEF take

LEMMA LiquidatedLoan ==
    ASSUME NEW l \in SoundLoan, l.status = "Active", NEW got \in Nat, got <= Remaining(l)
    PROVE  LET new == [l EXCEPT !.status = "Liquidated", !.totalRepaid = @ + got]
           IN  /\ new \in SoundLoan
               /\ new.borrower = l.borrower /\ new.principal = l.principal
               /\ new.totalOwed = l.totalOwed
               /\ new.totalRepaid = l.totalRepaid + got /\ new.status = "Liquidated"
               /\ LossOn(new) = Remaining(l) - got
<1> DEFINE new == [l EXCEPT !.status = "Liquidated", !.totalRepaid = @ + got]
<1>0. /\ l \in Loan /\ l.totalOwed \in Nat /\ l.totalRepaid \in Nat
      /\ l.totalRepaid + got \in Nat /\ l.totalRepaid + got <= l.totalOwed
      /\ 0 < l.principal /\ l.principal <= l.totalOwed
    BY LoanFields DEF Remaining, SoundLoan
<1>1. /\ new \in Loan /\ new.totalRepaid = l.totalRepaid + got
      /\ new.totalOwed = l.totalOwed /\ new.borrower = l.borrower
      /\ new.principal = l.principal /\ new.status = "Liquidated"
    BY <1>0 DEF Loan
<1> HIDE DEF new
<1>2. new \in SoundLoan
    BY <1>0, <1>1 DEF SoundLoan
<1>3. LossOn(new) = Remaining(l) - got
    BY <1>0, <1>1 DEF LossOn, Remaining
<1> QED
    BY <1>1, <1>2, <1>3 DEF new

LEMMA LiquidateKeepsBooks ==
    ASSUME IInv, NEW id \in LoanIds, Liquidate(id)
    PROVE  IInv'
<1> DEFINE l           == loans[id]
           outstanding == Remaining(l)
           take        == Recoverable(l.borrower, outstanding)
           seized      == FromVault(l.borrower, outstanding - take)
           got         == take + seized
           new         == [l EXCEPT !.status = "Liquidated", !.totalRepaid = @ + got]
           paidIn      == Moved(usdc, l.borrower, Contract, take)
<1>0. /\ now \in Nat /\ loans \in Seq(SoundLoan) /\ id \in 1..Len(loans)
      /\ protocolFeesAccrued \in Nat /\ swept \in Nat /\ supplied \in Int /\ badDebt \in Nat
      /\ usdc \in Ledgers /\ allowance \in [Spenders -> [Accounts -> Nat]]
      /\ lockedOf \in [Accounts -> Nat] /\ seizedOf \in [Accounts -> Nat]
      /\ totalLocked \in Nat /\ profile \in [Accounts -> Profile]
      /\ usdc[Contract] \in Nat /\ usdc[Vault] \in Nat
      /\ usdc[Vault] = totalLocked /\ totalLocked = SumTo(lockedOf, NumAccounts)
    BY Facts DEF TypedState, LoanIds
<1>1. /\ l.status = "Active"
      /\ loans' = [loans EXCEPT ![id].status = "Liquidated", ![id].totalRepaid = @ + take + seized]
      /\ activeDebtOf' = [activeDebtOf EXCEPT ![l.borrower] = @ - outstanding]
      /\ allowance' = Spent(Contract, l.borrower, take)
      /\ lockedOf' = [lockedOf EXCEPT ![l.borrower] = @ - seized]
      /\ seizedOf' = [seizedOf EXCEPT ![l.borrower] = @ + seized]
      /\ totalLocked' = totalLocked - seized
      /\ usdc' = Moved(paidIn, Vault, Contract, seized)
      /\ badDebt' = badDebt + (outstanding - take - seized)
      /\ RecordLiquidation(l.borrower)
      /\ UNCHANGED <<now, protocolFeesAccrued, engineParams, historyVars,
                     vaultParams, scoreParams, merchants>>
    BY DEF Liquidate, CheckLiquidatable, Seize, DebtCleared
<1>2. l \in SoundLoan /\ l.borrower \in Accounts /\ outstanding \in Nat /\ l.totalRepaid \in Nat
    <2>1. l \in SoundLoan
        BY <1>0
    <2> QED BY <2>1, LoanFields
<1> HIDE DEF outstanding
<1>3. /\ take \in Nat /\ take <= usdc[l.borrower] /\ take <= allowance[Contract][l.borrower]
      /\ seized \in Nat /\ seized <= lockedOf[l.borrower] /\ take + seized <= outstanding
    BY <1>0, <1>2, DrawnUpTo
<1> HIDE DEF take
<1> HIDE DEF seized
<1>4. got \in Nat /\ got <= outstanding
    BY <1>3
<1>5. loans' = [loans EXCEPT ![id] = new]
    <2>1. l.totalRepaid + take + seized = l.totalRepaid + got
        BY <1>2, <1>3
    <2>2. loans' = [loans EXCEPT ![id] =
                        [loans[id] EXCEPT !.status = "Liquidated",
                                          !.totalRepaid = loans[id].totalRepaid + take + seized]]
        BY <1>0, <1>1, <1>2 DEF SoundLoan, Loan
    <2> HIDE DEF got
    <2> QED BY <2>1, <2>2
<1>6. /\ new \in SoundLoan
      /\ new.borrower = l.borrower /\ new.principal = l.principal
      /\ new.totalRepaid = l.totalRepaid + got /\ new.status = "Liquidated"
      /\ LossOn(new) = outstanding - got
    <2> HIDE DEF got
    <2> QED BY <1>1, <1>2, <1>4, LiquidatedLoan DEF outstanding
<1> HIDE DEF new
<1>7. /\ lockedOf' \in [Accounts -> Nat] /\ seizedOf' \in [Accounts -> Nat]
      /\ seized <= totalLocked /\ totalLocked' \in Nat
      /\ totalLocked' = SumTo(lockedOf', NumAccounts)
    <2>1. lockedOf[l.borrower] \in Nat /\ lockedOf[l.borrower] - seized \in Nat
        BY <1>0, <1>2, <1>3
    <2>2. lockedOf' = [lockedOf EXCEPT ![l.borrower] = lockedOf[l.borrower] - seized]
        BY <1>0, <1>1
    <2>3. /\ lockedOf' \in [Accounts -> Nat] /\ lockedOf[l.borrower] <= SumTo(lockedOf, NumAccounts)
          /\ SumTo(lockedOf', NumAccounts)
               = SumTo(lockedOf, NumAccounts) + (lockedOf[l.borrower] - seized) - lockedOf[l.borrower]
        BY <1>0, <1>2, <2>1, <2>2, LockedUpdate
    <2>4. seized <= totalLocked /\ totalLocked' \in Nat /\ totalLocked' = SumTo(lockedOf', NumAccounts)
        <3>1. totalLocked \in Nat /\ seized \in Nat /\ totalLocked = SumTo(lockedOf, NumAccounts)
              /\ seized <= lockedOf[l.borrower] /\ totalLocked' = totalLocked - seized
            BY <1>0, <1>1, <1>3
        <3> QED BY <2>1, <2>3, <3>1
    <2>5. seizedOf' \in [Accounts -> Nat]
        <3>1. seizedOf[l.borrower] + seized \in Nat
            BY <1>0, <1>2, <1>3
        <3> QED BY <1>0, <1>1, <3>1
    <2> QED BY <2>3, <2>4, <2>5
<1>8. /\ usdc' \in Ledgers /\ usdc'[Contract] = usdc[Contract] + got
      /\ usdc'[Vault] = usdc[Vault] - seized
    <2>1. l.borrower # Contract /\ l.borrower # Vault /\ l.borrower \in Wallets
        BY <1>2, WalletsAre
    <2>2. /\ paidIn \in Ledgers /\ paidIn[Contract] = usdc[Contract] + take
          /\ paidIn[Vault] = usdc[Vault]
        BY <1>0, <1>3, <2>1, WalletsAre, MoveEffect
    <2> HIDE DEF paidIn
    <2>3. seized <= paidIn[Vault]
        BY <1>0, <1>7, <2>2
    <2>4. /\ usdc' \in Ledgers /\ usdc'[Contract] = paidIn[Contract] + seized
          /\ usdc'[Vault] = paidIn[Vault] - seized
        BY <1>1, <1>3, <2>2, <2>3, WalletsAre, MoveEffect
    <2>5. (usdc[Contract] + take) + seized = usdc[Contract] + (take + seized)
        BY <1>0, <1>3
    <2> QED BY <2>2, <2>4, <2>5
<1>9. allowance' \in [Spenders -> [Accounts -> Nat]]
    BY <1>0, <1>1, <1>2, <1>3, WalletsAre, SpentIsTyped
<1>10. profile' \in [Accounts -> Profile]
    BY <1>0, <1>1, <1>2, ScoresAreTyped
<1>11. /\ badDebt' = badDebt + LossOn(new) /\ supplied' = supplied /\ swept' = swept
    <2>1. outstanding - take - seized = outstanding - got
        BY <1>2, <1>3
    <2> QED BY <1>1, <1>6, <2>1 DEF historyVars
<1>12. /\ loans' \in Seq(SoundLoan) /\ activeDebtOf' \in [Accounts -> Nat] /\ badDebt' \in Nat
       /\ DebtsAreExact'
       /\ usdc'[Contract] + swept' + SumTo(PaidOut(loans'), Len(loans'))
            = supplied' + SumTo(PaidIn(loans'), Len(loans'))
    <2> HIDE DEF got
    <2> QED BY <1>1, <1>2, <1>4, <1>5, <1>6, <1>8, <1>11, ChangeKeepsSums DEF l, outstanding
<1>13. UNCHANGED <<now, protocolFeesAccrued, engineParams, vaultParams, scoreParams, merchants>>
    BY <1>1
<1>14. TypeOK' /\ loans' \in Seq(SoundLoan)
    BY <1>0, <1>7, <1>8, <1>9, <1>10, <1>11, <1>12, <1>13, Retyped
<1>15. LineBooksBalance'
    <2>1. usdc'[Vault] = totalLocked'
        BY <1>0, <1>1, <1>8
    <2> QED BY <1>7, <1>12, <2>1 DEF LineBooksBalance
<1> QED
    BY <1>12, <1>14, <1>15 DEF IInv
(* A step that leaves every loan alone keeps the books when cash moves as  *)
(* the history says and the vault stays square.                            *)
LEMMA CashKeepsBooks ==
    ASSUME IInv, TypeOK', UNCHANGED <<loans, activeDebtOf, badDebt>>,
           usdc'[Contract] + swept' - supplied' = usdc[Contract] + swept - supplied,
           usdc'[Vault] = totalLocked', totalLocked' = SumTo(lockedOf', NumAccounts)
    PROVE  IInv'
<1>0. /\ loans \in Seq(SoundLoan) /\ swept \in Nat /\ supplied \in Int /\ usdc[Contract] \in Nat
    BY Facts DEF TypedState
<1>1. swept' \in Nat /\ supplied' \in Int /\ usdc'[Contract] \in Nat
    BY WalletsAre DEF TypeOK, CoinTypeOK
<1>2. DebtsAreExact'
    BY DEF IInv, DebtsAreExact
<1>3. usdc'[Contract] + swept' + SumTo(PaidOut(loans'), Len(loans'))
        = supplied' + SumTo(PaidIn(loans'), Len(loans'))
    <2> DEFINE inn == SumTo(PaidIn(loans), Len(loans))
               out == SumTo(PaidOut(loans), Len(loans))
    <2>1. inn \in Nat /\ out \in Nat
        BY <1>0, SumsAreNatural
    <2>2. usdc[Contract] + swept + out = supplied + inn
        BY DEF IInv, LineBooksBalance
    <2>3. SumTo(PaidOut(loans'), Len(loans')) = out /\ SumTo(PaidIn(loans'), Len(loans')) = inn
        OBVIOUS
    <2> HIDE DEF inn, out
    <2>4. usdc'[Contract] + swept' + out = supplied' + inn
        <3>1. /\ usdc[Contract] \in Int /\ usdc'[Contract] \in Int /\ swept \in Int /\ swept' \in Int
              /\ supplied \in Int /\ supplied' \in Int /\ inn \in Int /\ out \in Int
            BY <1>0, <1>1, <2>1
        <3> QED BY <2>2, <3>1, Shift
    <2> QED BY <2>3, <2>4
<1> QED
    BY <1>2, <1>3 DEF IInv, LineBooksBalance

LEMMA FundKeepsBooks ==
    ASSUME IInv, NEW a \in Accounts, NEW amount \in FundAmounts, Fund(a, amount)
    PROVE  IInv'
<1>0. /\ now \in Nat /\ loans \in Seq(SoundLoan) /\ activeDebtOf \in [Accounts -> Nat]
      /\ protocolFeesAccrued \in Nat /\ swept \in Nat /\ supplied \in Int /\ badDebt \in Nat
      /\ usdc \in Ledgers /\ allowance \in [Spenders -> [Accounts -> Nat]]
      /\ lockedOf \in [Accounts -> Nat] /\ seizedOf \in [Accounts -> Nat]
      /\ totalLocked \in Nat /\ profile \in [Accounts -> Profile] /\ usdc[Contract] \in Nat
      /\ usdc[Vault] = totalLocked /\ totalLocked = SumTo(lockedOf, NumAccounts)
    BY Facts DEF TypedState
<1>1. /\ amount <= usdc[a] /\ amount <= allowance[Contract][a]
      /\ usdc' = Moved(usdc, a, Contract, amount)
      /\ allowance' = Spent(Contract, a, amount) /\ supplied' = supplied + amount
      /\ UNCHANGED <<now, loans, activeDebtOf, protocolFeesAccrued, badDebt, swept,
                     lockedOf, seizedOf, totalLocked, profile,
                     engineParams, vaultParams, scoreParams, merchants>>
    BY DEF Fund, Pullable, bookVars, vaultVars, vaultBook, scoreVars
<1>2. amount \in Nat /\ supplied' \in Int
    BY <1>0, <1>1, LineAssumption
<1>3. /\ usdc' \in Ledgers /\ usdc'[Contract] = usdc[Contract] + amount
      /\ usdc'[Vault] = usdc[Vault]
    <2>1. a # Contract /\ a # Vault /\ a \in Wallets
        BY WalletsAre
    <2> QED BY <1>0, <1>1, <1>2, <2>1, WalletsAre, MoveEffect
<1>4. allowance' \in [Spenders -> [Accounts -> Nat]]
    BY <1>0, <1>1, <1>2, WalletsAre, SpentIsTyped
<1>5. TypeOK'
    BY <1>0, <1>1, <1>2, <1>3, <1>4, Retyped
<1>6. usdc'[Contract] + swept' - supplied' = usdc[Contract] + swept - supplied
    BY <1>0, <1>1, <1>2, <1>3
<1> QED
    BY <1>0, <1>1, <1>3, <1>5, <1>6, CashKeepsBooks

LEMMA WithdrawLiquidityKeepsBooks ==
    ASSUME IInv, NEW to \in Accounts, NEW amount \in TakeAmounts, WithdrawLiquidity(to, amount)
    PROVE  IInv'
<1>0. /\ now \in Nat /\ loans \in Seq(SoundLoan) /\ activeDebtOf \in [Accounts -> Nat]
      /\ protocolFeesAccrued \in Nat /\ swept \in Nat /\ supplied \in Int /\ badDebt \in Nat
      /\ usdc \in Ledgers /\ allowance \in [Spenders -> [Accounts -> Nat]]
      /\ lockedOf \in [Accounts -> Nat] /\ seizedOf \in [Accounts -> Nat]
      /\ totalLocked \in Nat /\ profile \in [Accounts -> Profile] /\ usdc[Contract] \in Nat
      /\ usdc[Vault] = totalLocked /\ totalLocked = SumTo(lockedOf, NumAccounts)
    BY Facts DEF TypedState
<1>1. /\ amount <= Withdrawable /\ usdc' = Moved(usdc, Contract, to, amount)
      /\ supplied' = supplied - amount
      /\ UNCHANGED <<now, loans, activeDebtOf, protocolFeesAccrued, badDebt, swept, allowance,
                     lockedOf, seizedOf, totalLocked, profile,
                     engineParams, vaultParams, scoreParams, merchants>>
    BY DEF WithdrawLiquidity, bookVars, vaultVars, vaultBook, scoreVars
<1>2. amount \in Nat /\ supplied' \in Int /\ amount <= usdc[Contract]
    <2>1. amount \in Nat
        BY LineAssumption
    <2>2. Withdrawable <= usdc[Contract] /\ Withdrawable \in Nat
        BY <1>0 DEF Withdrawable
    <2> QED BY <1>0, <1>1, <2>1, <2>2
<1>3. /\ usdc' \in Ledgers /\ usdc'[Contract] = usdc[Contract] - amount
      /\ usdc'[Vault] = usdc[Vault]
    <2>1. to # Contract /\ to # Vault /\ to \in Wallets
        BY WalletsAre
    <2> QED BY <1>0, <1>1, <1>2, <2>1, WalletsAre, MoveEffect
<1>4. TypeOK'
    BY <1>0, <1>1, <1>2, <1>3, Retyped
<1>5. usdc'[Contract] + swept' - supplied' = usdc[Contract] + swept - supplied
    BY <1>0, <1>1, <1>2, <1>3
<1> QED
    BY <1>0, <1>1, <1>3, <1>4, <1>5, CashKeepsBooks

LEMMA SweepKeepsBooks ==
    ASSUME IInv, SweepFees
    PROVE  IInv'
<1>0. /\ now \in Nat /\ loans \in Seq(SoundLoan) /\ activeDebtOf \in [Accounts -> Nat]
      /\ protocolFeesAccrued \in Nat /\ swept \in Nat /\ supplied \in Int /\ badDebt \in Nat
      /\ usdc \in Ledgers /\ allowance \in [Spenders -> [Accounts -> Nat]]
      /\ lockedOf \in [Accounts -> Nat] /\ seizedOf \in [Accounts -> Nat] /\ treasury \in Accounts
      /\ totalLocked \in Nat /\ profile \in [Accounts -> Profile] /\ usdc[Contract] \in Nat
      /\ usdc[Vault] = totalLocked /\ totalLocked = SumTo(lockedOf, NumAccounts)
    BY Facts DEF TypedState
<1>1. /\ protocolFeesAccrued <= usdc[Contract] /\ protocolFeesAccrued' = 0
      /\ swept' = swept + protocolFeesAccrued
      /\ usdc' = Moved(usdc, Contract, treasury, protocolFeesAccrued)
      /\ UNCHANGED <<now, loans, activeDebtOf, badDebt, supplied, allowance,
                     lockedOf, seizedOf, totalLocked, profile,
                     engineParams, vaultParams, scoreParams, merchants>>
    BY DEF SweepFees, vaultVars, vaultBook, scoreVars
<1>2. protocolFeesAccrued' \in Nat /\ swept' \in Nat
    BY <1>0, <1>1
<1>3. /\ usdc' \in Ledgers /\ usdc'[Contract] = usdc[Contract] - protocolFeesAccrued
      /\ usdc'[Vault] = usdc[Vault]
    <2>1. treasury # Contract /\ treasury # Vault /\ treasury \in Wallets
        BY <1>0, WalletsAre
    <2> QED BY <1>0, <1>1, <2>1, WalletsAre, MoveEffect
<1>4. TypeOK'
    BY <1>0, <1>1, <1>2, <1>3, Retyped
<1>5. usdc'[Contract] + swept' - supplied' = usdc[Contract] + swept - supplied
    BY <1>0, <1>1, <1>3
<1> QED
    BY <1>0, <1>1, <1>3, <1>4, <1>5, CashKeepsBooks

LEMMA LockKeepsBooks ==
    ASSUME IInv, NEW a \in Accounts, NEW amount \in LockAmounts, Lock(a, amount),
           UNCHANGED <<now, bookVars, engineParams, historyVars, scoreVars, merchants>>
    PROVE  IInv'
<1>0. /\ now \in Nat /\ loans \in Seq(SoundLoan) /\ activeDebtOf \in [Accounts -> Nat]
      /\ protocolFeesAccrued \in Nat /\ swept \in Nat /\ supplied \in Int /\ badDebt \in Nat
      /\ usdc \in Ledgers /\ allowance \in [Spenders -> [Accounts -> Nat]]
      /\ lockedOf \in [Accounts -> Nat] /\ seizedOf \in [Accounts -> Nat]
      /\ totalLocked \in Nat /\ profile \in [Accounts -> Profile] /\ usdc[Vault] \in Nat
      /\ usdc[Vault] = totalLocked /\ totalLocked = SumTo(lockedOf, NumAccounts)
    BY Facts DEF TypedState
<1>1. /\ amount <= usdc[a] /\ amount <= allowance[Vault][a]
      /\ usdc' = Moved(usdc, a, Vault, amount) /\ allowance' = Spent(Vault, a, amount)
      /\ lockedOf' = [lockedOf EXCEPT ![a] = lockedOf[a] + amount]
      /\ totalLocked' = totalLocked + amount
      /\ UNCHANGED <<now, loans, activeDebtOf, protocolFeesAccrued, badDebt, supplied, swept,
                     seizedOf, profile, engineParams, vaultParams, scoreParams, merchants>>
    BY DEF Lock, Pullable, bookVars, historyVars, scoreVars
<1>2. amount \in Nat /\ lockedOf[a] \in Nat /\ lockedOf[a] + amount \in Nat
    <2>1. amount \in Nat
        BY VaultAssumption
    <2> QED BY <1>0, <2>1
<1>3. /\ usdc' \in Ledgers /\ usdc'[Vault] = usdc[Vault] + amount
      /\ usdc'[Contract] = usdc[Contract]
    <2>1. a # Contract /\ a # Vault /\ a \in Wallets
        BY WalletsAre
    <2> QED BY <1>0, <1>1, <1>2, <2>1, WalletsAre, MoveEffect
<1>4. allowance' \in [Spenders -> [Accounts -> Nat]]
    BY <1>0, <1>1, <1>2, WalletsAre, SpentIsTyped
<1>5. /\ lockedOf' \in [Accounts -> Nat] /\ totalLocked' \in Nat
      /\ totalLocked' = SumTo(lockedOf', NumAccounts)
    <2>1. /\ lockedOf' \in [Accounts -> Nat]
          /\ SumTo(lockedOf', NumAccounts)
               = SumTo(lockedOf, NumAccounts) + (lockedOf[a] + amount) - lockedOf[a]
        BY <1>0, <1>1, <1>2, LockedUpdate
    <2>2. /\ totalLocked \in Nat /\ totalLocked = SumTo(lockedOf, NumAccounts)
          /\ totalLocked' = totalLocked + amount
        BY <1>0, <1>1
    <2> QED BY <1>2, <2>1, <2>2
<1>6. TypeOK'
    BY <1>0, <1>1, <1>3, <1>4, <1>5, Retyped
<1> QED
    BY <1>0, <1>1, <1>3, <1>5, <1>6, CashKeepsBooks

LEMMA WithdrawCollateralKeepsBooks ==
    ASSUME IInv, NEW a \in Accounts, NEW amount \in LockAmounts,
           WithdrawCollateral(a, amount, activeDebtOf[a]),
           UNCHANGED <<now, bookVars, engineParams, historyVars, scoreVars, merchants>>
    PROVE  IInv'
<1>0. /\ now \in Nat /\ loans \in Seq(SoundLoan) /\ activeDebtOf \in [Accounts -> Nat]
      /\ protocolFeesAccrued \in Nat /\ swept \in Nat /\ supplied \in Int /\ badDebt \in Nat
      /\ usdc \in Ledgers /\ allowance \in [Spenders -> [Accounts -> Nat]]
      /\ lockedOf \in [Accounts -> Nat] /\ seizedOf \in [Accounts -> Nat]
      /\ totalLocked \in Nat /\ profile \in [Accounts -> Profile] /\ usdc[Vault] \in Nat
      /\ usdc[Vault] = totalLocked /\ totalLocked = SumTo(lockedOf, NumAccounts)
    BY Facts DEF TypedState
<1>1. /\ amount <= lockedOf[a] /\ usdc' = Moved(usdc, Vault, a, amount)
      /\ lockedOf' = [lockedOf EXCEPT ![a] = lockedOf[a] - amount]
      /\ totalLocked' = totalLocked - amount
      /\ UNCHANGED <<now, loans, activeDebtOf, protocolFeesAccrued, badDebt, supplied, swept,
                     allowance, seizedOf, profile, engineParams, vaultParams, scoreParams,
                     merchants>>
    BY DEF WithdrawCollateral, bookVars, historyVars, scoreVars
<1>2. amount \in Nat /\ lockedOf[a] \in Nat /\ lockedOf[a] - amount \in Nat
    <2>1. amount \in Nat
        BY VaultAssumption
    <2> QED BY <1>0, <1>1, <2>1
<1>3. /\ lockedOf' \in [Accounts -> Nat] /\ totalLocked' \in Nat /\ amount <= totalLocked
      /\ totalLocked' = SumTo(lockedOf', NumAccounts)
    <2>1. /\ lockedOf' \in [Accounts -> Nat] /\ lockedOf[a] <= SumTo(lockedOf, NumAccounts)
          /\ SumTo(lockedOf', NumAccounts)
               = SumTo(lockedOf, NumAccounts) + (lockedOf[a] - amount) - lockedOf[a]
        BY <1>0, <1>1, <1>2, LockedUpdate
    <2>2. /\ totalLocked \in Nat /\ totalLocked = SumTo(lockedOf, NumAccounts)
          /\ totalLocked' = totalLocked - amount
        BY <1>0, <1>1
    <2> QED BY <1>2, <2>1, <2>2
<1>4. /\ usdc' \in Ledgers /\ usdc'[Vault] = usdc[Vault] - amount
      /\ usdc'[Contract] = usdc[Contract]
    <2>1. a # Contract /\ a # Vault /\ a \in Wallets
        BY WalletsAre
    <2> QED BY <1>0, <1>1, <1>2, <1>3, <2>1, WalletsAre, MoveEffect
<1>5. TypeOK'
    BY <1>0, <1>1, <1>3, <1>4, Retyped
<1> QED
    BY <1>0, <1>1, <1>3, <1>4, <1>5, CashKeepsBooks

LEMMA CoinKeepsBooks ==
    ASSUME IInv, CoinNext,
           UNCHANGED <<now, bookVars, engineParams, historyVars, vaultVars, scoreVars, merchants>>
    PROVE  IInv'
<1>0. /\ now \in Nat /\ loans \in Seq(SoundLoan) /\ activeDebtOf \in [Accounts -> Nat]
      /\ protocolFeesAccrued \in Nat /\ swept \in Nat /\ supplied \in Int /\ badDebt \in Nat
      /\ usdc \in Ledgers /\ allowance \in [Spenders -> [Accounts -> Nat]]
      /\ lockedOf \in [Accounts -> Nat] /\ seizedOf \in [Accounts -> Nat]
      /\ totalLocked \in Nat /\ profile \in [Accounts -> Profile] /\ usdc[Vault] \in Nat
      /\ usdc[Vault] = totalLocked /\ totalLocked = SumTo(lockedOf, NumAccounts)
    BY Facts DEF TypedState
<1>1. UNCHANGED <<now, loans, activeDebtOf, protocolFeesAccrued, badDebt, supplied, swept,
                  lockedOf, seizedOf, totalLocked, profile,
                  engineParams, vaultParams, scoreParams, merchants>>
    BY DEF bookVars, historyVars, scoreVars, vaultVars, vaultBook
<1>2. /\ usdc' \in Ledgers /\ usdc'[Contract] = usdc[Contract] /\ usdc'[Vault] = usdc[Vault]
      /\ allowance' \in [Spenders -> [Accounts -> Nat]]
    <2>1. ASSUME NEW a \in Accounts, NEW s \in Spenders, NEW amount \in Nat, Approve(a, s, amount)
          PROVE  usdc' = usdc /\ allowance' \in [Spenders -> [Accounts -> Nat]]
        BY <1>0, <2>1 DEF Approve
    <2>2. ASSUME NEW a \in Accounts, NEW to \in Accounts, NEW amount \in Nat, Transfer(a, to, amount)
          PROVE  /\ usdc' \in Ledgers /\ usdc'[Contract] = usdc[Contract]
                 /\ usdc'[Vault] = usdc[Vault] /\ allowance' = allowance
        BY <1>0, <2>2, SendEffect DEF Transfer
    <2>3. /\ Signers \subseteq Accounts /\ Movers \subseteq Accounts /\ MoveAmounts \subseteq Nat
          /\ EngineApprovals \subseteq Nat /\ VaultApprovals \subseteq Nat
        BY StablecoinAssumption
    <2>4. CASE \E a \in Signers, amount \in EngineApprovals : Approve(a, Contract, amount)
        BY <1>0, <2>1, <2>3, <2>4, WalletsAre
    <2>5. CASE \E a \in Signers, amount \in VaultApprovals : Approve(a, Vault, amount)
        BY <1>0, <2>1, <2>3, <2>5, WalletsAre
    <2>6. CASE \E a, to \in Movers, amount \in MoveAmounts : Transfer(a, to, amount)
        BY <1>0, <2>2, <2>3, <2>6
    <2> QED BY <2>4, <2>5, <2>6 DEF CoinNext
<1>3. TypeOK'
    BY <1>0, <1>1, <1>2, Retyped
<1> QED
    BY <1>0, <1>1, <1>2, <1>3, CashKeepsBooks
(* The owner's settings, the registry and the clock move no money.         *)
LEMMA SettingsKeepBooks ==
    ASSUME IInv, UNCHANGED <<bookVars, historyVars, coinVars, vaultBook, profile>>,
           \/ /\ now' \in Nat
              /\ UNCHANGED <<engineParams, vaultParams, scoreParams, merchants>>
           \/ EngineSetters /\ UNCHANGED <<now, vaultParams, scoreParams, merchants>>
           \/ VaultNext /\ UNCHANGED <<now, engineParams, scoreParams, merchants>>
           \/ ScoreNext /\ UNCHANGED <<now, engineParams, vaultParams, merchants>>
           \/ RegistryNext /\ UNCHANGED <<now, engineParams, vaultParams, scoreParams>>
    PROVE  IInv'
<1>0. /\ now \in Nat /\ loans \in Seq(SoundLoan) /\ activeDebtOf \in [Accounts -> Nat]
      /\ swept \in Nat /\ supplied \in Int
      /\ usdc[Vault] = totalLocked /\ totalLocked = SumTo(lockedOf, NumAccounts)
    BY Facts DEF TypedState
<1>1. UNCHANGED <<loans, activeDebtOf, protocolFeesAccrued, badDebt, supplied, swept,
                  usdc, allowance, lockedOf, seizedOf, totalLocked, profile>>
    BY DEF bookVars, historyVars, coinVars, vaultBook
<1>2. /\ loans \in Seq(Loan) /\ protocolFeesAccrued \in Nat /\ badDebt \in Nat
      /\ usdc \in [Wallets -> Nat] /\ allowance \in [Spenders -> [Accounts -> Nat]]
      /\ lockedOf \in [Accounts -> Nat] /\ seizedOf \in [Accounts -> Nat] /\ totalLocked \in Nat
      /\ profile \in [Accounts -> Profile]
    BY DEF IInv, TypeOK, CoinTypeOK, VaultTypeOK, ScoreTypeOK
<1>3. /\ originators \subseteq Accounts /\ treasury \in Accounts
      /\ vaultSet \in BOOLEAN /\ registrySet \in BOOLEAN
      /\ creditMultiplierBps \in 1..MaxMultiplierBps
      /\ engineSeizes \in BOOLEAN /\ debtChecked \in BOOLEAN
      /\ engineWrites \in BOOLEAN /\ boostRead \in BOOLEAN
      /\ merchants \in [Merchants -> Merchant]
    BY DEF IInv, TypeOK, VaultTypeOK, ScoreTypeOK, RegistryTypeOK
<1> DEFINE Engine == /\ originators' \subseteq Accounts /\ treasury' \in Accounts
                     /\ vaultSet' \in BOOLEAN /\ registrySet' \in BOOLEAN
           Locker == /\ creditMultiplierBps' \in 1..MaxMultiplierBps
                     /\ engineSeizes' \in BOOLEAN /\ debtChecked' \in BOOLEAN
           Scorer == engineWrites' \in BOOLEAN /\ boostRead' \in BOOLEAN
           Sellers == merchants' \in [Merchants -> Merchant]
<1>4. now' \in Nat
    BY <1>0
<1>5. Engine
    <2>1. CASE UNCHANGED engineParams
        BY <1>3, <2>1 DEF engineParams
    <2>2. CASE EngineSetters
        BY <1>3, <2>2, LineAssumption
           DEF EngineSetters, SetOriginator, SetTreasury, SetCollateralVault, SetMerchantRegistry
    <2> QED BY <2>1, <2>2
<1>6. Locker
    <2>1. CASE UNCHANGED vaultParams
        BY <1>3, <2>1 DEF vaultParams
    <2>2. CASE VaultNext
        <3>1. ASSUME NEW a \in Accounts, NEW amount \in LockAmounts, Lock(a, amount)
              PROVE  Locker
            BY <1>3, <3>1 DEF Lock, vaultParams
        <3>2. ASSUME NEW bps \in MultiplierChoices, SetCreditMultiplierBps(bps)
              PROVE  Locker
            <4>1. bps \in 1..MaxMultiplierBps
                <5>1. bps \in Nat /\ bps # 0 /\ bps <= MaxMultiplierBps
                    BY <3>2, VaultAssumption DEF SetCreditMultiplierBps, ValidMultiplier
                <5> QED BY <5>1, MultiplierRange
            <4> QED BY <1>3, <3>2, <4>1 DEF SetCreditMultiplierBps
        <3>3. ASSUME NEW v \in SeizerChoices, SetSeizer(v) \/ SetLoanEngine(v)
              PROVE  Locker
            BY <1>3, <3>3, VaultAssumption DEF SetSeizer, SetLoanEngine
        <3> QED BY <2>2, <3>1, <3>2, <3>3 DEF VaultNext
    <2> QED BY <2>1, <2>2
<1>7. Scorer
    BY <1>3, ScoreAssumption DEF scoreParams, ScoreNext, SetWriter, SetBoostVault
<1>8. Sellers
    <2>1. CASE UNCHANGED merchants
        BY <1>3, <2>1
    <2>2. CASE RegistryNext
        <3>1. PICK m \in Merchants :
                \/ Register(m)
                \/ \E v \in ActiveChoices : SetActive(m, v)
                \/ \E cap \in CapChoices : SetMaxOrderValue(m, cap)
            BY <2>2 DEF RegistryNext
        <3>2. merchants[m] \in Merchant
            BY <1>3
        <3>3. \E r \in Merchant : merchants' = [merchants EXCEPT ![m] = r]
            <4>1. CASE Register(m)
                BY <4>1, RegistryAssumption DEF Register, Merchant
            <4>2. ASSUME NEW v \in ActiveChoices, SetActive(m, v)
                  PROVE  \E r \in Merchant : merchants' = [merchants EXCEPT ![m] = r]
                <5>1. /\ [merchants[m] EXCEPT !.active = v] \in Merchant
                      /\ merchants' = [merchants EXCEPT ![m] = [merchants[m] EXCEPT !.active = v]]
                    BY <3>2, <4>2, RegistryAssumption DEF SetActive, Merchant
                <5> QED BY <5>1
            <4>3. ASSUME NEW cap \in CapChoices, SetMaxOrderValue(m, cap)
                  PROVE  \E r \in Merchant : merchants' = [merchants EXCEPT ![m] = r]
                <5>1. /\ [merchants[m] EXCEPT !.maxOrderValue = cap] \in Merchant
                      /\ merchants' = [merchants EXCEPT ![m] =
                                          [merchants[m] EXCEPT !.maxOrderValue = cap]]
                    BY <3>2, <4>3, RegistryAssumption DEF SetMaxOrderValue, Merchant
                <5> QED BY <5>1
            <4> QED BY <3>1, <4>1, <4>2, <4>3
        <3> QED BY <1>3, <3>3
    <2> QED BY <2>1, <2>2
<1>9. TypeOK'
    BY <1>0, <1>1, <1>2, <1>4, <1>5, <1>6, <1>7, <1>8
       DEF TypeOK, CoinTypeOK, VaultTypeOK, ScoreTypeOK, RegistryTypeOK
<1> QED
    BY <1>0, <1>1, <1>9, CashKeepsBooks

LEMMA InitKeepsBooks == Init => IInv
<1> SUFFICES ASSUME Init PROVE IInv
    OBVIOUS
<1>1. /\ loans = <<>> /\ activeDebtOf = [a \in Accounts |-> 0] /\ badDebt = 0
      /\ supplied = 0 /\ swept = 0 /\ now = 0 /\ protocolFeesAccrued = 0
      /\ originators = {Owner} /\ treasury = Owner
      /\ vaultSet = TRUE /\ registrySet = TRUE
      /\ CoinInit /\ VaultInit /\ ScoreInit /\ RegistryInit
    BY DEF Init
<1>2. loans \in Seq(SoundLoan) /\ loans \in Seq(Loan) /\ Len(loans) = 0
    BY <1>1
<1>3. CoinTypeOK /\ usdc[Contract] = 0 /\ usdc[Vault] = 0
    <2>1. \A w \in Wallets : w \in Accounts => UsdcSupply[w] \in Nat
        BY StablecoinAssumption
    <2> QED BY <1>1, <2>1, WalletsAre DEF CoinInit, CoinTypeOK
<1>4. /\ VaultTypeOK /\ totalLocked = 0 /\ lockedOf \in [1..NumAccounts -> Int]
      /\ \A i \in 1..NumAccounts : lockedOf[i] = 0
    BY <1>1 DEF VaultInit, VaultTypeOK, MaxMultiplierBps, Accounts
<1>5. ScoreTypeOK
    BY <1>1 DEF ScoreInit, ScoreTypeOK, NoProfile, Profile, MinScore, MaxScore, StartingScore
<1>6. RegistryTypeOK
    BY <1>1 DEF RegistryInit, RegistryTypeOK, Merchant
<1>7. TypeOK
    BY <1>1, <1>2, <1>3, <1>4, <1>5, <1>6, LineAssumption DEF TypeOK
<1>8. ASSUME NEW c \in [1..0 -> Int] PROVE SumTo(c, 0) = 0
    <2>1. 0 \in Nat /\ \A i \in 1..0 : c[i] = 0
        OBVIOUS
    <2> QED BY <2>1, SumOfZeros
<1>9. /\ \A a : ActiveDebt(loans, a) \in [1..0 -> Int]
      /\ WrittenOff(loans) \in [1..0 -> Int]
      /\ PaidIn(loans) \in [1..0 -> Int] /\ PaidOut(loans) \in [1..0 -> Int]
    BY <1>2 DEF ActiveDebt, WrittenOff, PaidIn, PaidOut
<1>10. DebtsAreExact
    BY <1>1, <1>2, <1>8, <1>9 DEF DebtsAreExact
<1>11. SumTo(lockedOf, NumAccounts) = 0
    BY <1>4, PartiesAssumption, SumOfZeros
<1>12. LineBooksBalance
    BY <1>1, <1>2, <1>3, <1>4, <1>8, <1>9, <1>11 DEF LineBooksBalance
<1> QED
    BY <1>2, <1>7, <1>10, <1>12 DEF IInv

LEMMA StepKeepsBooks == IInv /\ [Next]_vars => IInv'
<1> SUFFICES ASSUME IInv, [Next]_vars PROVE IInv'
    OBVIOUS
<1>1. CASE Tick
    <2>1. now \in Nat /\ now' = now + 1
        BY <1>1, Facts DEF Tick, TypedState
    <2> QED BY <1>1, <2>1, SettingsKeepBooks DEF Tick, vaultVars, scoreVars
<1>2. CASE \E a \in Accounts, amount \in FundAmounts : Fund(a, amount)
    BY <1>2, FundKeepsBooks
<1>3. CASE \E amount \in TakeAmounts : WithdrawLiquidity(Owner, amount)
    BY <1>3, WithdrawLiquidityKeepsBooks, LineAssumption
<1>4. CASE \E b \in Borrowers, m \in Merchants, principal \in Principals,
              count \in Counts, interval \in Intervals :
              CreateLoan(b, m, principal, count, interval)
    BY <1>4, OpenKeepsBooks
<1>5. CASE \E id \in LoanIds, asked \in RepayAmounts : Repay(id, asked)
    BY <1>5, RepayKeepsBooks
<1>6. CASE \E id \in LoanIds : Liquidate(id)
    BY <1>6, LiquidateKeepsBooks
<1>7. CASE SweepFees
    BY <1>7, SweepKeepsBooks
<1>8. CASE \E a \in Accounts, amount \in LockAmounts :
              /\ WithdrawCollateral(a, amount, activeDebtOf[a])
              /\ UNCHANGED <<now, bookVars, engineParams, historyVars, scoreVars, merchants>>
    BY <1>8, WithdrawCollateralKeepsBooks
<1>9. CASE /\ EngineSetters
           /\ UNCHANGED <<now, bookVars, historyVars, coinVars, vaultVars, scoreVars, merchants>>
    BY <1>9, SettingsKeepBooks DEF vaultVars, scoreVars
<1>10. CASE /\ CoinNext
            /\ UNCHANGED <<now, bookVars, engineParams, historyVars, vaultVars, scoreVars, merchants>>
    BY <1>10, CoinKeepsBooks
<1>11. CASE /\ VaultNext
            /\ UNCHANGED <<now, bookVars, engineParams, historyVars, scoreVars, merchants>>
    <2>1. CASE \E a \in Accounts, amount \in LockAmounts : Lock(a, amount)
        BY <1>11, <2>1, LockKeepsBooks
    <2>2. CASE \/ \E bps \in MultiplierChoices : SetCreditMultiplierBps(bps)
               \/ \E v \in SeizerChoices : SetSeizer(v) \/ SetLoanEngine(v)
        <3>1. UNCHANGED <<coinVars, vaultBook>>
            BY <2>2 DEF SetCreditMultiplierBps, SetSeizer, SetLoanEngine
        <3>2. UNCHANGED <<profile, scoreParams>>
            BY <1>11 DEF scoreVars
        <3> QED BY <1>11, <3>1, <3>2, SettingsKeepBooks
    <2> QED BY <1>11, <2>1, <2>2 DEF VaultNext
<1>12. CASE /\ ScoreNext
            /\ UNCHANGED <<now, bookVars, engineParams, historyVars, coinVars, vaultVars, merchants>>
    <2>1. UNCHANGED profile
        BY <1>12 DEF ScoreNext, SetWriter, SetBoostVault
    <2> QED BY <1>12, <2>1, SettingsKeepBooks DEF vaultVars
<1>13. CASE /\ RegistryNext
            /\ UNCHANGED <<now, bookVars, engineParams, historyVars, coinVars, vaultVars, scoreVars>>
    BY <1>13, SettingsKeepBooks DEF vaultVars, scoreVars
<1>14. CASE UNCHANGED vars
    <2>1. now \in Nat
        BY Facts DEF TypedState
    <2> QED BY <1>14, <2>1, SettingsKeepBooks DEF vars, vaultVars, scoreVars
<1> QED
    BY <1>1, <1>2, <1>3, <1>4, <1>5, <1>6, <1>7, <1>8, <1>9, <1>10, <1>11, <1>12, <1>13, <1>14
       DEF Next

(* The inductive invariant: the shapes, loans that are never owed less than *)
(* they brought in, and the books of the engine and of the vault.          *)
THEOREM LineInvariant == Spec => []IInv
BY InitKeepsBooks, StepKeepsBooks, PTL DEF Spec

(* No balance, allowance, debt, locked position or loss ever falls below   *)
(* zero, whatever the schedules and amounts: no subtraction in repay,      *)
(* liquidate, seize or withdraw reverts for a reason the code did not name.*)
THEOREM LineTypeCorrect == Spec => []TypeOK
<1>1. IInv => TypeOK
    BY DEF IInv
<1> QED
    BY <1>1, LineInvariant, PTL

(* activeDebtOf is the sum of what the borrower's active loans still owe,  *)
(* and badDebt the sum of what the liquidated ones never brought in.       *)
THEOREM DebtsAreAlwaysExact == Spec => []DebtsAreExact
<1>1. IInv => DebtsAreExact
    BY DEF IInv
<1> QED
    BY <1>1, LineInvariant, PTL

(* The engine's cash is liquidity plus collections less what was paid out, *)
(* and the vault holds exactly what it owes its depositors.                *)
THEOREM LineBooksAlwaysBalance == Spec => []LineBooksBalance
<1>1. IInv => LineBooksBalance
    BY DEF IInv
<1> QED
    BY <1>1, LineInvariant, PTL

-----------------------------------------------------------------------------
(* What the line promises its users, proved from its books: the instalment *)
(* ladder, the collateral, the standing allowance, the order in which a    *)
(* default is paid for, the protocol's fees and the score.                 *)

(* The instalment counter and the money.                                   *)

(* What InstallmentsMatchMoney says of one loan.                           *)
Matches(l) ==
    /\ l.status # "Liquidated" =>
          /\ l.totalRepaid >= ThresholdFor(l, l.installmentsPaid)
          /\ l.status = "Active" =>
                /\ l.installmentsPaid < l.installmentCount
                /\ l.totalRepaid < ThresholdFor(l, l.installmentsPaid + 1)
    /\ l.status = "Repaid" =>
          l.totalRepaid = l.totalOwed /\ l.installmentsPaid = l.installmentCount

LEMMA RoundedUpBounds ==
    ASSUME NEW a \in Nat, NEW b \in Positive
    PROVE  /\ (a + b - 1) \div b \in Nat
           /\ b * ((a + b - 1) \div b) <= a + b - 1
           /\ a + b - 1 < b * ((a + b - 1) \div b) + b
<1>1. ASSUME NEW c \in Nat
      PROVE  c \div b \in Nat /\ b * (c \div b) <= c /\ c < b * (c \div b) + b
    BY DEF Positive
<1>2. a + b - 1 \in Nat
    BY DEF Positive
<1> QED
    BY <1>1, <1>2

(* The first instalment costs something and none costs more than the debt. *)
LEMMA ThresholdBounds ==
    ASSUME NEW l, l.installmentCount \in Nat \ {0}, l.totalOwed \in Nat \ {0}, NEW k \in Nat \ {0}
    PROVE  0 < ThresholdFor(l, k) /\ ThresholdFor(l, k) <= l.totalOwed
<1> DEFINE n == l.installmentCount
           o == l.totalOwed
           q == (o * k + n - 1) \div n
<1>1. CASE k >= n
    BY <1>1 DEF ThresholdFor
<1>2. CASE k < n
    <2>1. o * k \in Nat /\ n \in Positive /\ o * k > 0
        BY ProductIsNatural DEF Positive
    <2>2. /\ q \in Nat /\ n * q <= o * k + n - 1 /\ o * k + n - 1 < n * q + n
        BY <2>1, RoundedUpBounds
    <2>3. ThresholdFor(l, k) = q
        BY <1>2 DEF ThresholdFor
    <2> HIDE DEF q, n, o
    <2>4. n \in Nat /\ 0 < n /\ o \in Nat /\ 0 < o /\ k < n /\ o * k \in Nat /\ o * k > 0 /\ n * q \in Nat
        <3>1. n \in Nat /\ 0 < n /\ o \in Nat /\ 0 < o
            BY DEF n, o
        <3> QED BY <1>2, <2>1, <2>2, <3>1 DEF n
    <2>5. q # 0
        <3> SUFFICES ASSUME q = 0 PROVE FALSE
            OBVIOUS
        <3>1. n * q = 0
            BY <2>4
        <3> QED BY <2>2, <2>4, <3>1
    <2>6. q <= o
        <3> SUFFICES ASSUME o + 1 <= q PROVE FALSE
            BY <2>2, <2>4
        <3>1. (o + 1) * n <= q * n
            BY <2>2, <2>4
        <3>2. o * k <= o * n
            BY <2>4
        <3>3. (o + 1) * n = o * n + n /\ q * n = n * q /\ o * n \in Nat
            BY <2>2, <2>4
        <3> QED BY <2>2, <2>4, <3>1, <3>2, <3>3
    <2> QED BY <2>2, <2>3, <2>5, <2>6 DEF o
<1> QED
    BY <1>1, <1>2

LEMMA OpenedMatches ==
    ASSUME NEW l \in SoundLoan, l.totalRepaid = 0, l.installmentsPaid = 0, l.status = "Active"
    PROVE  Matches(l)
<1>1. /\ l.installmentCount \in Nat \ {0} /\ l.totalOwed \in Nat \ {0}
    BY LoanFields
<1>2. ThresholdFor(l, 0) = 0
    BY DEF ThresholdFor
<1>3. 0 < ThresholdFor(l, 0 + 1)
    BY <1>1, ThresholdBounds
<1> QED
    BY <1>1, <1>2, <1>3 DEF Matches

LEMMA PaidMatches ==
    ASSUME NEW l \in SoundLoan, NEW earned, l.installmentsPaid = earned,
           earned \in 0..l.installmentCount, l.status \in {"Active", "Repaid"},
           l.status = "Repaid" <=> l.totalRepaid = l.totalOwed,
           \A j \in 1..earned : l.totalRepaid >= ThresholdFor(l, j),
           earned = l.installmentCount \/ l.totalRepaid < ThresholdFor(l, earned + 1)
    PROVE  Matches(l)
<1>1. /\ l.installmentCount \in Nat \ {0} /\ l.totalOwed \in Nat \ {0} /\ earned \in Nat
      /\ l.totalRepaid \in Nat /\ l.totalRepaid <= l.totalOwed
    BY LoanFields
<1>2. l.totalRepaid >= ThresholdFor(l, earned)
    <2>1. CASE earned = 0
        BY <1>1, <2>1 DEF ThresholdFor
    <2>2. CASE earned # 0
        <3>1. earned \in 1..earned
            BY <1>1, <2>2
        <3> QED BY <3>1
    <2> QED BY <2>1, <2>2
<1>3. CASE l.status = "Active"
    <2>1. earned # l.installmentCount
        <3> SUFFICES ASSUME earned = l.installmentCount PROVE FALSE
            OBVIOUS
        <3>1. ThresholdFor(l, earned) = l.totalOwed
            BY <1>1 DEF ThresholdFor
        <3>2. l.totalRepaid = l.totalOwed
            BY <1>1, <1>2, <3>1
        <3> QED BY <1>3, <3>2
    <2>2. earned < l.installmentCount
        BY <1>1, <2>1
    <2> QED BY <1>2, <1>3, <2>1, <2>2 DEF Matches
<1>4. CASE l.status = "Repaid"
    <2>1. l.totalRepaid = l.totalOwed
        BY <1>4
    <2>2. earned + 1 \in Nat \ {0}
        BY <1>1
    <2>3. ThresholdFor(l, earned + 1) <= l.totalOwed
        BY <1>1, <2>2, ThresholdBounds
    <2>4. ThresholdFor(l, earned + 1) \in Nat
        BY <1>1, <2>2, ThresholdIsNatural
    <2>5. earned = l.installmentCount
        BY <1>1, <2>1, <2>3, <2>4
    <2> QED BY <1>2, <1>4, <2>1, <2>5 DEF Matches
<1> QED
    BY <1>3, <1>4
(* Only three operations touch the book of loans.                          *)
Opens == \E b \in Borrowers, m \in Merchants, principal \in Principals,
            count \in Counts, interval \in Intervals :
            CreateLoan(b, m, principal, count, interval)
Repays == \E id \in LoanIds, asked \in RepayAmounts : Repay(id, asked)
Liquidates == \E id \in LoanIds : Liquidate(id)

LEMMA OthersLeaveTheBook ==
    ASSUME [Next]_vars, ~Opens, ~Repays, ~Liquidates
    PROVE  loans' = loans /\ activeDebtOf' = activeDebtOf /\ badDebt' = badDebt
BY DEF Next, vars, bookVars, Opens, Repays, Liquidates, Tick, Fund, WithdrawLiquidity, SweepFees

(* What each of the three writes.                                          *)
LEMMA OpenWrites ==
    ASSUME IInv, NEW b \in Borrowers, NEW m \in Merchants, NEW principal \in Principals,
           NEW count \in Counts, NEW interval \in Intervals,
           CreateLoan(b, m, principal, count, interval)
    PROVE  \E l \in SoundLoan :
              /\ loans' = Append(loans, l) /\ l.status = "Active"
              /\ l.totalRepaid = 0 /\ l.installmentsPaid = 0 /\ l.totalOwed <= Unlimited
<1> DEFINE owed == principal + InterestOn(principal, count, interval)
           l == [borrower |-> b, merchant |-> m, principal |-> principal,
                 totalOwed |-> owed, totalRepaid |-> 0,
                 installmentCount |-> count, installmentsPaid |-> 0,
                 startedAt |-> now, interval |-> interval, status |-> "Active"]
<1>1. loans' = Append(loans, l)
    BY DEF CreateLoan
<1>2. loans \in Seq(SoundLoan) /\ loans' \in Seq(SoundLoan)
    BY OpenKeepsBooks DEF IInv
<1> HIDE DEF l
<1>3. loans'[Len(loans) + 1] = l /\ Len(loans') = Len(loans) + 1
    BY <1>1, <1>2
<1>4. l \in SoundLoan
    BY <1>2, <1>3
<1>5. l.status = "Active" /\ l.totalRepaid = 0 /\ l.installmentsPaid = 0 /\ l.totalOwed <= Unlimited
    BY AmountAssumption DEF l
<1> QED
    BY <1>1, <1>4, <1>5

LEMMA RepayMoves ==
    ASSUME IInv, NEW id \in LoanIds, NEW asked \in RepayAmounts, Repay(id, asked)
    PROVE  LET old    == loans[id]
               amount == IF asked > Remaining(old) THEN Remaining(old) ELSE asked
           IN  /\ old \in SoundLoan /\ old.borrower \in Accounts /\ amount \in Nat
               /\ old.status = "Active" /\ amount <= Remaining(old)
               /\ amount <= allowance[Contract][old.borrower]
               /\ allowance' = Spent(Contract, old.borrower, amount)
               /\ activeDebtOf' = [activeDebtOf EXCEPT ![old.borrower] = @ - amount]
               /\ protocolFeesAccrued' = protocolFeesAccrued + FeeOn(old, amount)
               /\ swept' = swept /\ badDebt' = badDebt
               /\ \E l \in SoundLoan :
                     /\ loans' = [loans EXCEPT ![id] = l] /\ Matches(l)
                     /\ l.borrower = old.borrower /\ l.principal = old.principal
                     /\ l.totalOwed = old.totalOwed /\ l.installmentCount = old.installmentCount
                     /\ l.startedAt = old.startedAt /\ l.interval = old.interval
                     /\ l.totalRepaid = old.totalRepaid + amount
                     /\ l.status # "Liquidated"
                     /\ l.status = "Repaid" <=> l.totalRepaid = l.totalOwed
                     /\ ScorePayment(old, l.installmentsPaid)
<1> DEFINE l      == loans[id]
           amount == IF asked > Remaining(l) THEN Remaining(l) ELSE asked
           paid   == [l EXCEPT !.totalRepaid = @ + amount]
           earned == InstallmentsEarned(paid)
           new    == [paid EXCEPT !.installmentsPaid = earned,
                          !.status = IF paid.totalRepaid >= l.totalOwed THEN "Repaid" ELSE @]
<1>1. /\ l.status = "Active" /\ loans' = [loans EXCEPT ![id] = new]
      /\ amount <= allowance[Contract][l.borrower]
      /\ allowance' = Spent(Contract, l.borrower, amount)
      /\ activeDebtOf' = [activeDebtOf EXCEPT ![l.borrower] = @ - amount]
      /\ protocolFeesAccrued' = protocolFeesAccrued + FeeOn(l, amount)
      /\ ScorePayment(l, earned) /\ swept' = swept /\ badDebt' = badDebt
    BY DEF Repay, Pullable, historyVars
<1>2. l \in SoundLoan /\ l.borrower \in Accounts
    <2>1. l \in SoundLoan
        BY Facts DEF TypedState, LoanIds
    <2> QED BY <2>1, LoanFields
<1>3. amount \in Nat /\ amount <= Remaining(l)
    <2>1. asked \in Nat /\ Remaining(l) \in Nat
        BY <1>2, LineAssumption, LoanFields
    <2> QED BY <2>1
<1> HIDE DEF amount
<1>4. /\ new \in SoundLoan /\ earned \in 0..l.installmentCount
      /\ new.installmentCount = l.installmentCount /\ new.installmentsPaid = earned
      /\ new.status \in {"Active", "Repaid"}
      /\ new.status = "Repaid" <=> new.totalRepaid = new.totalOwed
      /\ \A j \in 1..earned : new.totalRepaid >= ThresholdFor(new, j)
      /\ earned = new.installmentCount \/ new.totalRepaid < ThresholdFor(new, earned + 1)
    BY <1>1, <1>2, <1>3, PaidLoan
<1>5. /\ new.borrower = l.borrower /\ new.principal = l.principal
      /\ new.totalOwed = l.totalOwed /\ new.totalRepaid = l.totalRepaid + amount
    BY <1>1, <1>2, <1>3, PaidLoan
<1>9. new.startedAt = l.startedAt /\ new.interval = l.interval
    <2>1. l \in Loan
        BY <1>2, LoanFields
    <2>2. \A x \in Loan : \A t, e, st :
            LET y == [x EXCEPT !.totalRepaid = t]
                z == [y EXCEPT !.installmentsPaid = e, !.status = st]
            IN  z.startedAt = x.startedAt /\ z.interval = x.interval
        BY DEF Loan
    <2> QED BY <2>1, <2>2
<1> HIDE DEF new, earned
<1>6. Matches(new)
    BY <1>4, PaidMatches
<1>7. ScorePayment(l, new.installmentsPaid) /\ new.status # "Liquidated"
    BY <1>1, <1>4
<1> HIDE DEF l
<1>8. \E x \in SoundLoan :
        /\ loans' = [loans EXCEPT ![id] = x] /\ Matches(x)
        /\ x.borrower = l.borrower /\ x.principal = l.principal
        /\ x.totalOwed = l.totalOwed /\ x.installmentCount = l.installmentCount
        /\ x.startedAt = l.startedAt /\ x.interval = l.interval
        /\ x.totalRepaid = l.totalRepaid + amount
        /\ x.status # "Liquidated"
        /\ x.status = "Repaid" <=> x.totalRepaid = x.totalOwed
        /\ ScorePayment(l, x.installmentsPaid)
    BY <1>1, <1>4, <1>5, <1>6, <1>7, <1>9
<1> QED
    BY <1>1, <1>2, <1>3, <1>8 DEF l, amount

LEMMA LiquidateWrites ==
    ASSUME IInv, NEW id \in LoanIds, Liquidate(id)
    PROVE  \E l \in SoundLoan :
              /\ loans' = [loans EXCEPT ![id] = l] /\ l.status = "Liquidated"
              /\ l.borrower = loans[id].borrower /\ l.principal = loans[id].principal
              /\ l.totalOwed = loans[id].totalOwed /\ l.totalRepaid >= loans[id].totalRepaid
              /\ l.installmentsPaid = loans[id].installmentsPaid
              /\ l.installmentCount = loans[id].installmentCount
              /\ l.startedAt = loans[id].startedAt /\ l.interval = loans[id].interval
<1> DEFINE b           == loans[id].borrower
           outstanding == Remaining(loans[id])
           take        == Recoverable(b, outstanding)
           seized      == FromVault(b, outstanding - take)
<1>1. loans \in Seq(SoundLoan) /\ loans' \in Seq(SoundLoan) /\ id \in 1..Len(loans)
    BY LiquidateKeepsBooks DEF IInv, LoanIds
<1>2. loans[id] \in SoundLoan /\ loans[id] \in Loan /\ loans[id].totalRepaid \in Nat
    <2>1. loans[id] \in SoundLoan
        BY <1>1
    <2> QED BY <2>1, LoanFields
<1>3. loans' = [loans EXCEPT ![id].status = "Liquidated", ![id].totalRepaid = @ + take + seized]
    BY DEF Liquidate
<1>4. take \in Nat /\ seized \in Nat
    <2>1. /\ b \in Accounts /\ outstanding \in Nat /\ usdc \in Ledgers
          /\ allowance \in [Spenders -> [Accounts -> Nat]] /\ lockedOf \in [Accounts -> Nat]
        BY <1>2, LoanFields, Facts DEF TypedState
    <2> HIDE DEF b, outstanding
    <2> QED BY <2>1, DrawnUpTo
<1> HIDE DEF take, seized
<1> DEFINE l == [loans[id] EXCEPT !.status = "Liquidated",
                                  !.totalRepaid = loans[id].totalRepaid + take + seized]
<1>5. loans' = [loans EXCEPT ![id] = l]
    BY <1>1, <1>2, <1>3 DEF Loan
<1>6. /\ l.status = "Liquidated"
      /\ l.borrower = loans[id].borrower /\ l.principal = loans[id].principal
      /\ l.totalOwed = loans[id].totalOwed
      /\ l.installmentsPaid = loans[id].installmentsPaid
      /\ l.installmentCount = loans[id].installmentCount
      /\ l.startedAt = loans[id].startedAt /\ l.interval = loans[id].interval
      /\ l.totalRepaid = loans[id].totalRepaid + take + seized
    BY <1>2 DEF Loan
<1> HIDE DEF l
<1>7. l.totalRepaid >= loans[id].totalRepaid
    BY <1>2, <1>4, <1>6
<1>8. l \in SoundLoan
    <2>1. loans'[id] = l /\ id \in 1..Len(loans')
        BY <1>1, <1>5
    <2> QED BY <1>1, <2>1
<1> QED
    BY <1>5, <1>6, <1>7, <1>8

LEMMA StepKeepsInstallments ==
    ASSUME IInv, InstallmentsMatchMoney, [Next]_vars
    PROVE  InstallmentsMatchMoney'
<1>0. loans \in Seq(SoundLoan)
    BY DEF IInv
<1>1. \A id \in 1..Len(loans) : Matches(loans[id])
    BY DEF InstallmentsMatchMoney, Matches, LoanIds
<1> SUFFICES \A id \in 1..Len(loans') : Matches(loans'[id])
    BY DEF InstallmentsMatchMoney, Matches, LoanIds, ThresholdFor
<1>2. CASE Opens
    <2>1. PICK l \in SoundLoan : /\ loans' = Append(loans, l) /\ l.status = "Active"
                                 /\ l.totalRepaid = 0 /\ l.installmentsPaid = 0
        BY <1>2, OpenWrites DEF Opens
    <2>2. Matches(l)
        BY <2>1, OpenedMatches
    <2> QED BY <1>0, <1>1, <2>1, <2>2
<1>3. CASE Repays
    <2>1. PICK id \in LoanIds, l \in SoundLoan : loans' = [loans EXCEPT ![id] = l] /\ Matches(l)
        BY <1>3, RepayMoves DEF Repays
    <2> QED BY <1>0, <1>1, <2>1
<1>4. CASE Liquidates
    <2>1. PICK id \in LoanIds, l \in SoundLoan :
            loans' = [loans EXCEPT ![id] = l] /\ l.status = "Liquidated"
        BY <1>4, LiquidateWrites DEF Liquidates
    <2>2. Matches(l)
        BY <2>1 DEF Matches
    <2> QED BY <1>0, <1>1, <2>1, <2>2
<1>5. CASE ~Opens /\ ~Repays /\ ~Liquidates
    BY <1>1, <1>5, OthersLeaveTheBook
<1> QED
    BY <1>2, <1>3, <1>4, <1>5

(* The instalment counter says what the money covers, for every schedule   *)
(* and every way of splitting the payments: no amount buys an instalment   *)
(* early, and no active loan has nothing left to collect.                  *)
THEOREM InstallmentsAlwaysMatchMoney == Spec => []InstallmentsMatchMoney
<1>1. Init => InstallmentsMatchMoney
    BY DEF Init, InstallmentsMatchMoney, LoanIds
<1>2. IInv /\ InstallmentsMatchMoney /\ [Next]_vars => InstallmentsMatchMoney'
    BY StepKeepsInstallments
<1> QED
    BY <1>1, <1>2, LineInvariant, PTL DEF Spec
-----------------------------------------------------------------------------
(* What a liquidation draws on.                                            *)

LEMMA LiquidationMoves ==
    ASSUME IInv, NEW id \in LoanIds, Liquidate(id)
    PROVE  LET b           == loans[id].borrower
               outstanding == Remaining(loans[id])
               take        == Recoverable(b, outstanding)
               seized      == FromVault(b, outstanding - take)
           IN  /\ b \in Accounts /\ outstanding \in Nat /\ loans[id] \in SoundLoan
               /\ take \in Nat /\ take <= usdc[b] /\ take <= allowance[Contract][b]
               /\ seized \in Nat /\ seized <= lockedOf[b] /\ take + seized <= outstanding
               /\ activeDebtOf' = [activeDebtOf EXCEPT ![b] = @ - outstanding]
               /\ allowance' = Spent(Contract, b, take)
               /\ lockedOf' = [lockedOf EXCEPT ![b] = @ - seized]
               /\ badDebt' = badDebt + (outstanding - take - seized)
               /\ usdc'[b] = usdc[b] - take
               /\ usdc'[Contract] = usdc[Contract] + take + seized
<1> DEFINE b           == loans[id].borrower
           outstanding == Remaining(loans[id])
           take        == Recoverable(b, outstanding)
           seized      == FromVault(b, outstanding - take)
           paidIn      == Moved(usdc, b, Contract, take)
<1>0. /\ loans \in Seq(SoundLoan) /\ id \in 1..Len(loans)
      /\ usdc \in Ledgers /\ allowance \in [Spenders -> [Accounts -> Nat]]
      /\ lockedOf \in [Accounts -> Nat] /\ usdc[Contract] \in Nat /\ usdc[Vault] \in Nat
      /\ usdc[Vault] = totalLocked /\ totalLocked = SumTo(lockedOf, NumAccounts)
    BY Facts DEF TypedState, LoanIds
<1>1. /\ activeDebtOf' = [activeDebtOf EXCEPT ![b] = @ - outstanding]
      /\ allowance' = Spent(Contract, b, take)
      /\ lockedOf' = [lockedOf EXCEPT ![b] = @ - seized]
      /\ badDebt' = badDebt + (outstanding - take - seized)
      /\ usdc' = Moved(paidIn, Vault, Contract, seized)
    BY DEF Liquidate, Seize, DebtCleared
<1>2. loans[id] \in SoundLoan /\ b \in Accounts /\ outstanding \in Nat
    <2>1. loans[id] \in SoundLoan
        BY <1>0
    <2> QED BY <2>1, LoanFields
<1> HIDE DEF outstanding, b
<1>3. /\ take \in Nat /\ take <= usdc[b] /\ take <= allowance[Contract][b]
      /\ seized \in Nat /\ seized <= lockedOf[b] /\ take + seized <= outstanding
    BY <1>0, <1>2, DrawnUpTo
<1> HIDE DEF take
<1> HIDE DEF seized
<1>4. b # Contract /\ b # Vault /\ b \in Wallets
    BY <1>2, WalletsAre
<1>5. /\ paidIn \in Ledgers /\ paidIn[Contract] = usdc[Contract] + take
      /\ paidIn[Vault] = usdc[Vault] /\ paidIn[b] = usdc[b] - take
    BY <1>0, <1>3, <1>4, WalletsAre, MoveEffect
<1> HIDE DEF paidIn
<1>6. seized <= paidIn[Vault]
    <2>1. lockedOf[b] <= SumTo(lockedOf, NumAccounts) /\ SumTo(lockedOf, NumAccounts) \in Nat
        BY <1>0, <1>2, LockedUpdate
    <2>2. lockedOf[b] \in Nat
        BY <1>0, <1>2
    <2> QED BY <1>0, <1>3, <1>5, <2>1, <2>2
<1>7. usdc'[Contract] = paidIn[Contract] + seized /\ usdc'[b] = paidIn[b]
    BY <1>1, <1>3, <1>4, <1>5, <1>6, WalletsAre, MoveEffect
<1> QED
    BY <1>1, <1>2, <1>3, <1>5, <1>7 DEF b, outstanding, take, seized

LEMMA OthersRelease ==
    ASSUME IInv, [Next]_vars, ~Liquidates, NEW a \in Accounts, lockedOf'[a] < lockedOf[a]
    PROVE  debtChecked => activeDebtOf[a] = 0
<1>0. lockedOf \in [Accounts -> Nat] /\ lockedOf[a] \in Nat
    BY Facts DEF TypedState
<1>1. lockedOf' # lockedOf
    BY <1>0
<1>2. CASE \E x \in Accounts, amount \in LockAmounts : WithdrawCollateral(x, amount, activeDebtOf[x])
    <2>1. PICK x \in Accounts, amount \in LockAmounts : WithdrawCollateral(x, amount, activeDebtOf[x])
        BY <1>2
    <2>2. x = a
        BY <1>0, <2>1 DEF WithdrawCollateral
    <2> QED BY <2>1, <2>2 DEF WithdrawCollateral, Releasable
<1>3. CASE \E x \in Accounts, amount \in LockAmounts : Lock(x, amount)
    <2>1. PICK x \in Accounts, amount \in LockAmounts : Lock(x, amount)
        BY <1>3
    <2>2. lockedOf' = [lockedOf EXCEPT ![x] = lockedOf[x] + amount] /\ amount \in Nat
        BY <2>1, VaultAssumption DEF Lock
    <2>3. lockedOf'[a] >= lockedOf[a]
        BY <1>0, <2>2
    <2> QED BY <1>0, <2>2, <2>3
<1>4. \/ \E x \in Accounts, amount \in LockAmounts : WithdrawCollateral(x, amount, activeDebtOf[x])
      \/ \E x \in Accounts, amount \in LockAmounts : Lock(x, amount)
    <2>1. ASSUME UNCHANGED vaultBook PROVE FALSE
        BY <1>1, <2>1 DEF vaultBook
    <2>2. ~ UNCHANGED vaultVars
        BY <2>1 DEF vaultVars
    <2>3. ASSUME NEW amount, WithdrawLiquidity(Owner, amount) PROVE FALSE
        BY <2>2, <2>3 DEF WithdrawLiquidity
    <2>4. ASSUME NEW x, NEW amount, Fund(x, amount) PROVE FALSE
        BY <2>2, <2>4 DEF Fund
    <2>5. ASSUME NEW b, NEW m, NEW p, NEW c, NEW i, CreateLoan(b, m, p, c, i) PROVE FALSE
        BY <2>2, <2>5 DEF CreateLoan
    <2>6. ASSUME NEW id, NEW asked, Repay(id, asked) PROVE FALSE
        BY <2>2, <2>6 DEF Repay
    <2>7. ~ SweepFees /\ ~ Tick /\ ~ UNCHANGED vars
        BY <2>2 DEF SweepFees, Tick, vars
    <2>8. ASSUME VaultNext
          PROVE  \E x \in Accounts, amount \in LockAmounts : Lock(x, amount)
        BY <2>1, <2>8 DEF VaultNext, SetCreditMultiplierBps, SetSeizer, SetLoanEngine
    <2> QED BY <2>2, <2>3, <2>4, <2>5, <2>6, <2>7, <2>8 DEF Next, Liquidates
<1> QED
    BY <1>2, <1>3, <1>4

LEMMA LiquidationTakesItOff ==
    ASSUME IInv, NEW id \in LoanIds, Liquidate(id), NEW a \in Accounts, lockedOf'[a] < lockedOf[a]
    PROVE  /\ activeDebtOf[a] - activeDebtOf'[a] >= lockedOf[a] - lockedOf'[a]
           /\ usdc'[Contract] - usdc[Contract] >= lockedOf[a] - lockedOf'[a]
<1> DEFINE b           == loans[id].borrower
           outstanding == Remaining(loans[id])
           take        == Recoverable(b, outstanding)
           seized      == FromVault(b, outstanding - take)
<1>0. /\ lockedOf \in [Accounts -> Nat] /\ lockedOf[a] \in Nat /\ usdc[Contract] \in Nat
      /\ activeDebtOf \in [Accounts -> Nat] /\ activeDebtOf[a] \in Nat
    BY Facts DEF TypedState
<1>1. /\ b \in Accounts /\ outstanding \in Nat /\ take \in Nat /\ seized \in Nat
      /\ take + seized <= outstanding
      /\ activeDebtOf' = [activeDebtOf EXCEPT ![b] = @ - outstanding]
      /\ lockedOf' = [lockedOf EXCEPT ![b] = @ - seized]
      /\ usdc'[Contract] = usdc[Contract] + take + seized
    BY LiquidationMoves
<1> HIDE DEF b, outstanding, take, seized
<1>2. a = b
    BY <1>0, <1>1
<1>3. lockedOf'[a] = lockedOf[a] - seized /\ activeDebtOf'[a] = activeDebtOf[a] - outstanding
    BY <1>0, <1>1, <1>2
<1> QED
    BY <1>0, <1>1, <1>3

(* Whatever the owner does to the engine, the score and the registry, as   *)
(* long as the vault asks the engine, collateral behind a debt leaves only *)
(* in a liquidation, off the debt and into the engine.                     *)
THEOREM CollateralAlwaysStays == Spec => CollateralStaysWhileOwed
<1> DEFINE Stays(a) ==
        activeDebtOf[a] > 0 /\ debtChecked /\ lockedOf'[a] < lockedOf[a] =>
            /\ activeDebtOf[a] - activeDebtOf'[a] >= lockedOf[a] - lockedOf'[a]
            /\ usdc'[Contract] - usdc[Contract] >= lockedOf[a] - lockedOf'[a]
<1>1. IInv /\ [Next]_vars => \A a \in Accounts : Stays(a)
    <2> SUFFICES ASSUME IInv, [Next]_vars, NEW a \in Accounts,
                        activeDebtOf[a] > 0, debtChecked, lockedOf'[a] < lockedOf[a]
                 PROVE  /\ activeDebtOf[a] - activeDebtOf'[a] >= lockedOf[a] - lockedOf'[a]
                        /\ usdc'[Contract] - usdc[Contract] >= lockedOf[a] - lockedOf'[a]
        OBVIOUS
    <2>1. CASE Liquidates
        BY <2>1, LiquidationTakesItOff DEF Liquidates
    <2>2. CASE ~Liquidates
        <3>1. activeDebtOf[a] = 0
            BY <2>2, OthersRelease
        <3> QED BY <3>1
    <2> QED BY <2>1, <2>2
<1> QED
    BY <1>1, LineInvariant, PTL DEF Spec, CollateralStaysWhileOwed
-----------------------------------------------------------------------------
(* The standing allowance.                                                 *)

(* Debt and allowance fall together in a repayment and in a liquidation,   *)
(* and createLoan asks for the sum.                                        *)
LEMMA StepKeepsBacking ==
    ASSUME IInv, [Next]_vars, NEW b \in Accounts, activeDebtOf[b] <= allowance[Contract][b],
           activeDebtOf'[b] # activeDebtOf[b]
    PROVE  activeDebtOf'[b] <= allowance'[Contract][b]
<1>0. /\ activeDebtOf \in [Accounts -> Nat] /\ allowance \in [Spenders -> [Accounts -> Nat]]
      /\ b \in Accounts /\ activeDebtOf[b] \in Nat /\ allowance[Contract][b] \in Nat
    <2>1. activeDebtOf \in [Accounts -> Nat] /\ allowance \in [Spenders -> [Accounts -> Nat]]
        BY Facts DEF TypedState
    <2> QED BY <2>1, WalletsAre
<1>1. ASSUME NEW a \in Accounts, NEW drop \in Nat, NEW spent \in Nat, spent <= drop,
             activeDebtOf' = [activeDebtOf EXCEPT ![a] = @ - drop],
             allowance' = Spent(Contract, a, spent)
      PROVE  activeDebtOf'[b] <= allowance'[Contract][b]
    <2>1. a = b
        BY <1>0, <1>1
    <2>2. activeDebtOf'[b] = activeDebtOf[b] - drop
        BY <1>0, <1>1, <2>1
    <2>3. \/ allowance'[Contract][b] = allowance[Contract][b]
          \/ allowance'[Contract][b] = allowance[Contract][b] - spent
        BY <1>0, <1>1, <2>1, WalletsAre DEF Spent
    <2> QED BY <1>0, <1>1, <2>2, <2>3
<1>2. CASE Opens
    <2>1. PICK x \in Borrowers, m \in Merchants, principal \in Principals,
               count \in Counts, interval \in Intervals :
               CreateLoan(x, m, principal, count, interval)
        BY <1>2 DEF Opens
    <2> DEFINE owed == principal + InterestOn(principal, count, interval)
    <2>2. /\ activeDebtOf[x] + owed <= allowance[Contract][x]
          /\ activeDebtOf' = [activeDebtOf EXCEPT ![x] = @ + owed]
          /\ allowance' = allowance
        BY <2>1 DEF CreateLoan, Backed
    <2> HIDE DEF owed
    <2>3. x = b
        BY <1>0, <2>2
    <2>4. activeDebtOf'[b] = activeDebtOf[b] + owed
        BY <1>0, <2>2, <2>3
    <2> QED BY <2>2, <2>3, <2>4
<1>3. CASE Repays
    <2>1. PICK id \in LoanIds, asked \in RepayAmounts : Repay(id, asked)
        BY <1>3 DEF Repays
    <2> DEFINE l      == loans[id]
               amount == IF asked > Remaining(l) THEN Remaining(l) ELSE asked
    <2>2. /\ l.borrower \in Accounts /\ amount \in Nat
          /\ allowance' = Spent(Contract, l.borrower, amount)
          /\ activeDebtOf' = [activeDebtOf EXCEPT ![l.borrower] = @ - amount]
        BY <2>1, RepayMoves
    <2> HIDE DEF l, amount
    <2>3. amount <= amount
        BY <2>2
    <2> QED BY <1>1, <2>2, <2>3
<1>4. CASE Liquidates
    <2>1. PICK id \in LoanIds : Liquidate(id)
        BY <1>4 DEF Liquidates
    <2> DEFINE a           == loans[id].borrower
               outstanding == Remaining(loans[id])
               take        == Recoverable(a, outstanding)
               seized      == FromVault(a, outstanding - take)
    <2>2. /\ a \in Accounts /\ outstanding \in Nat /\ take \in Nat /\ seized \in Nat
          /\ take + seized <= outstanding
          /\ activeDebtOf' = [activeDebtOf EXCEPT ![a] = @ - outstanding]
          /\ allowance' = Spent(Contract, a, take)
        BY <2>1, LiquidationMoves
    <2> HIDE DEF a, outstanding, take, seized
    <2>3. take <= outstanding
        BY <2>2
    <2> QED BY <1>1, <2>2, <2>3
<1>5. CASE ~Opens /\ ~Repays /\ ~Liquidates
    BY <1>5, OthersLeaveTheBook
<1> QED
    BY <1>2, <1>3, <1>4, <1>5

(* An allowance that covers every open plan of a borrower keeps covering   *)
(* them all, for every number of plans, as long as the borrower leaves it  *)
(* alone: no origination, repayment or liquidation unbacks another plan.   *)
THEOREM ApprovalAlwaysBacks == Spec => ApprovalBacksEveryPlan
<1> DEFINE Kept(b) ==
        /\ activeDebtOf[b] <= allowance[Contract][b]
        /\ activeDebtOf'[b] # activeDebtOf[b]
        => activeDebtOf'[b] <= allowance'[Contract][b]
<1>1. IInv /\ [Next]_vars => \A b \in Accounts : Kept(b)
    BY StepKeepsBacking
<1> QED
    BY <1>1, LineInvariant, PTL DEF Spec, ApprovalBacksEveryPlan
-----------------------------------------------------------------------------
(* Loss as the last resort.                                                *)

(* No debt is larger than the unlimited allowance, so an allowance smaller *)
(* than what is still owed is always one that gets spent.                  *)
DebtsFit == \A id \in LoanIds : loans[id].totalOwed <= Unlimited

LEMMA StepKeepsFit ==
    ASSUME IInv, DebtsFit, [Next]_vars
    PROVE  DebtsFit'
<1>0. loans \in Seq(SoundLoan) /\ \A id \in 1..Len(loans) : loans[id].totalOwed <= Unlimited
    BY DEF IInv, DebtsFit, LoanIds
<1> SUFFICES \A id \in 1..Len(loans') : loans'[id].totalOwed <= Unlimited
    BY DEF DebtsFit, LoanIds
<1>1. CASE Opens
    <2>1. PICK l \in SoundLoan : loans' = Append(loans, l) /\ l.totalOwed <= Unlimited
        BY <1>1, OpenWrites DEF Opens
    <2> QED BY <1>0, <2>1
<1>2. ASSUME NEW id \in LoanIds, NEW l \in SoundLoan,
             loans' = [loans EXCEPT ![id] = l], l.totalOwed = loans[id].totalOwed
      PROVE  \A i \in 1..Len(loans') : loans'[i].totalOwed <= Unlimited
    BY <1>0, <1>2 DEF LoanIds
<1>3. CASE Repays
    <2>1. PICK id \in LoanIds, asked \in RepayAmounts : Repay(id, asked)
        BY <1>3 DEF Repays
    <2>2. PICK l \in SoundLoan :
            loans' = [loans EXCEPT ![id] = l] /\ l.totalOwed = loans[id].totalOwed
        BY <2>1, RepayMoves
    <2> QED BY <1>2, <2>2
<1>4. CASE Liquidates
    <2>1. PICK id \in LoanIds : Liquidate(id)
        BY <1>4 DEF Liquidates
    <2>2. PICK l \in SoundLoan :
            loans' = [loans EXCEPT ![id] = l] /\ l.totalOwed = loans[id].totalOwed
        BY <2>1, LiquidateWrites
    <2> QED BY <1>2, <2>2
<1>5. CASE ~Opens /\ ~Repays /\ ~Liquidates
    BY <1>0, <1>5, OthersLeaveTheBook
<1> QED
    BY <1>1, <1>3, <1>4, <1>5

LEMMA DebtsAlwaysFit == Spec => []DebtsFit
<1>1. Init => DebtsFit
    BY DEF Init, DebtsFit, LoanIds
<1>2. IInv /\ DebtsFit /\ [Next]_vars => DebtsFit'
    BY StepKeepsFit
<1> QED
    BY <1>1, <1>2, LineInvariant, PTL DEF Spec

(* Loss that a liquidation books means that every source was drained.      *)
LEMMA LossDrains ==
    ASSUME IInv, DebtsFit, NEW id \in LoanIds, Liquidate(id), badDebt' > badDebt
    PROVE  LET b == loans[id].borrower
           IN  /\ usdc'[b] = 0 \/ allowance'[Contract][b] = 0
               /\ vaultSet => lockedOf'[b] = 0
<1> DEFINE b           == loans[id].borrower
           outstanding == Remaining(loans[id])
           take        == Recoverable(b, outstanding)
           seized      == FromVault(b, outstanding - take)
<1>0. /\ usdc \in Ledgers /\ allowance \in [Spenders -> [Accounts -> Nat]]
      /\ lockedOf \in [Accounts -> Nat] /\ badDebt \in Nat
    BY Facts DEF TypedState
<1>1. /\ b \in Accounts /\ outstanding \in Nat /\ loans[id] \in SoundLoan
      /\ take \in Nat /\ seized \in Nat /\ seized <= lockedOf[b] /\ take + seized <= outstanding
      /\ allowance' = Spent(Contract, b, take)
      /\ lockedOf' = [lockedOf EXCEPT ![b] = @ - seized]
      /\ badDebt' = badDebt + (outstanding - take - seized)
      /\ usdc'[b] = usdc[b] - take
    BY LiquidationMoves
<1>2. outstanding <= Unlimited
    BY <1>1, LoanFields, StablecoinAssumption DEF DebtsFit, Remaining
<1> HIDE DEF b, outstanding
<1>3. usdc[b] \in Nat /\ allowance[Contract][b] \in Nat /\ lockedOf[b] \in Nat
    BY <1>0, <1>1, WalletsAre DEF Ledgers
<1>4. take = outstanding \/ take = usdc[b] \/ take = allowance[Contract][b]
    BY DEF Recoverable, Least
<1>5. vaultSet => seized = outstanding - take \/ seized = lockedOf[b]
    BY DEF FromVault, Seizable
<1> HIDE DEF take
<1> HIDE DEF seized
<1>6. take + seized < outstanding /\ take < outstanding
    BY <1>0, <1>1
<1>7. usdc'[b] = 0 \/ allowance'[Contract][b] = 0
    <2>1. CASE take = usdc[b]
        BY <1>1, <1>3, <2>1
    <2>2. CASE take = allowance[Contract][b]
        <3>1. allowance[Contract][b] # Unlimited
            BY <1>1, <1>2, <1>3, <1>6, <2>2, StablecoinAssumption
        <3>2. allowance'[Contract][b] = allowance[Contract][b] - take
            BY <1>0, <1>1, <3>1, WalletsAre DEF Spent
        <3> QED BY <1>3, <2>2, <3>2
    <2> QED BY <1>1, <1>4, <1>6, <2>1, <2>2
<1>8. vaultSet => lockedOf'[b] = 0
    <2>1. lockedOf'[b] = lockedOf[b] - seized
        BY <1>0, <1>1
    <2>2. vaultSet => seized = lockedOf[b]
        BY <1>1, <1>5, <1>6
    <2> QED BY <1>3, <2>1, <2>2
<1> QED
    BY <1>7, <1>8 DEF b

(* Loss is booked only when the borrower has no money or no allowance left *)
(* and the vault the engine points at has no collateral left.              *)
THEOREM LossIsAlwaysLast == Spec => BadDebtIsLastResort
<1> DEFINE Last(id) ==
        LET b == loans[id].borrower
        IN  badDebt' > badDebt /\ loans'[id].status # loans[id].status =>
                /\ usdc'[b] = 0 \/ allowance'[Contract][b] = 0
                /\ vaultSet => lockedOf'[b] = 0
<1>1. IInv /\ DebtsFit /\ [Next]_vars => \A id \in LoanIds : Last(id)
    <2> SUFFICES ASSUME IInv, DebtsFit, [Next]_vars, NEW id \in LoanIds,
                        badDebt' > badDebt, loans'[id].status # loans[id].status
                 PROVE  /\ usdc'[loans[id].borrower] = 0 \/ allowance'[Contract][loans[id].borrower] = 0
                        /\ vaultSet => lockedOf'[loans[id].borrower] = 0
        OBVIOUS
    <2>0. badDebt \in Nat /\ loans \in Seq(SoundLoan)
        BY Facts DEF TypedState
    <2>1. badDebt' # badDebt
        BY <2>0
    <2>2. CASE Liquidates
        <3>1. PICK j \in LoanIds : Liquidate(j)
            BY <2>2 DEF Liquidates
        <3>2. PICK l \in SoundLoan : loans' = [loans EXCEPT ![j] = l]
            BY <3>1, LiquidateWrites
        <3>3. j = id
            BY <2>0, <3>2 DEF LoanIds
        <3> QED BY <3>1, <3>3, LossDrains
    <2>3. CASE Opens
        BY <2>1, <2>3 DEF Opens, CreateLoan
    <2>4. CASE Repays
        BY <2>1, <2>4 DEF Repays, Repay
    <2>5. CASE ~Opens /\ ~Repays /\ ~Liquidates
        BY <2>1, <2>5, OthersLeaveTheBook
    <2> QED BY <2>2, <2>3, <2>4, <2>5
<1> QED
    BY <1>1, LineInvariant, DebtsAlwaysFit, PTL DEF Spec, BadDebtIsLastResort
-----------------------------------------------------------------------------
(* The protocol's fees.                                                    *)

Shares(book) == [i \in 1..Len(book) |-> InterestShare(book[i])]

LEMMA Quotient ==
    ASSUME NEW a \in Nat, NEW b \in Positive
    PROVE  /\ a \div b \in Nat /\ b * (a \div b) <= a
           /\ \A w \in Nat : w * b <= a => w <= a \div b
BY DEF Positive

(* Two roundings down never come to more than one.                         *)
LEMMA FloorsAdd ==
    ASSUME NEW a \in Nat, NEW b \in Nat, NEW c \in Positive
    PROVE  (a \div c) + (b \div c) <= (a + b) \div c
<1> DEFINE p == a \div c
           q == b \div c
<1>1. p \in Nat /\ c * p <= a /\ q \in Nat /\ c * q <= b
    BY Quotient
<1> HIDE DEF p, q
<1>2. c \in Nat /\ c * p \in Nat /\ c * q \in Nat
    BY <1>1, ProductIsNatural DEF Positive
<1>3. (p + q) * c = c * p + c * q
    BY <1>1, <1>2
<1>4. a + b \in Nat /\ p + q \in Nat /\ (p + q) * c <= a + b
    BY <1>1, <1>2, <1>3
<1> QED
    BY <1>4, Quotient DEF p, q

LEMMA SharesAre ==
    ASSUME NEW l \in SoundLoan, NEW amount \in Nat
    PROVE  /\ l.totalRepaid * Interest(l) * ProtocolFeeBps \in Nat
           /\ amount * Interest(l) * ProtocolFeeBps \in Nat
           /\ 10000 * l.totalOwed \in Positive
           /\ InterestShare(l) = (l.totalRepaid * Interest(l) * ProtocolFeeBps) \div (10000 * l.totalOwed)
           /\ FeeOn(l, amount) = (amount * Interest(l) * ProtocolFeeBps) \div (10000 * l.totalOwed)
           /\ InterestShare(l) \in Nat /\ FeeOn(l, amount) \in Nat
<1>1. Interest(l) \in Nat /\ l.totalOwed \in Nat /\ 0 < l.totalOwed /\ l.totalRepaid \in Nat
    BY LoanFields
<1>2. /\ amount * Interest(l) * ProtocolFeeBps \in Nat
      /\ l.totalRepaid * Interest(l) * ProtocolFeeBps \in Nat
    BY <1>1, ProductIsNatural DEF ProtocolFeeBps
<1>3. 10000 * l.totalOwed \in Positive /\ l.totalOwed * 10000 = 10000 * l.totalOwed
    BY <1>1 DEF Positive
<1> QED
    BY <1>2, <1>3, QuotientIsNatural DEF InterestShare, FeeOn

(* What a payment adds to a loan's share covers the fee taken for it.      *)
LEMMA PaymentCoversFee ==
    ASSUME NEW l \in SoundLoan, NEW new \in SoundLoan, NEW amount \in Nat,
           new.principal = l.principal, new.totalOwed = l.totalOwed,
           new.totalRepaid = l.totalRepaid + amount
    PROVE  InterestShare(l) + FeeOn(l, amount) <= InterestShare(new)
<1> DEFINE i == Interest(l)
           f == ProtocolFeeBps
           a == l.totalRepaid * i * f
           b == amount * i * f
           c == 10000 * l.totalOwed
<1>1. /\ a \in Nat /\ b \in Nat /\ c \in Positive
      /\ InterestShare(l) = a \div c /\ FeeOn(l, amount) = b \div c
    BY SharesAre
<1>2. InterestShare(new) = (new.totalRepaid * Interest(new) * f) \div (10000 * new.totalOwed)
    BY DEF InterestShare
<1>3. Interest(new) = i
    BY DEF Interest
<1>4. i \in Nat /\ f \in Nat /\ l.totalRepaid \in Nat
    BY LoanFields DEF ProtocolFeeBps
<1> HIDE DEF i, f
<1>5. new.totalRepaid * i * f = a + b
    <2>1. (l.totalRepaid + amount) * i = l.totalRepaid * i + amount * i
        BY <1>4
    <2>2. l.totalRepaid * i \in Nat /\ amount * i \in Nat
        BY <1>4, ProductIsNatural
    <2>3. (l.totalRepaid * i + amount * i) * f = (l.totalRepaid * i) * f + (amount * i) * f
        BY <1>4, <2>2
    <2> QED BY <2>1, <2>3
<1> HIDE DEF a, b
<1>6. InterestShare(new) = (a + b) \div c
    BY <1>2, <1>3, <1>5
<1> HIDE DEF c
<1> QED
    BY <1>1, <1>6, FloorsAdd

LEMMA CollectionKeepsShare ==
    ASSUME NEW l \in SoundLoan, NEW new \in SoundLoan,
           new.principal = l.principal, new.totalOwed = l.totalOwed,
           new.totalRepaid >= l.totalRepaid
    PROVE  InterestShare(l) <= InterestShare(new)
<1>1. l.totalRepaid \in Nat /\ new.totalRepaid \in Nat
    BY LoanFields
<1> DEFINE amount == new.totalRepaid - l.totalRepaid
<1>2. amount \in Nat /\ new.totalRepaid = l.totalRepaid + amount
    BY <1>1
<1> HIDE DEF amount
<1>3. InterestShare(l) + FeeOn(l, amount) <= InterestShare(new)
    BY <1>2, PaymentCoversFee
<1>4. InterestShare(l) \in Nat /\ FeeOn(l, amount) \in Nat /\ InterestShare(new) \in Nat
    BY <1>2, SharesAre
<1> QED
    BY <1>3, <1>4

(* A loan that opens, and a loan that changes, in the sum of the shares.   *)
LEMMA SharesAfterOpen ==
    ASSUME NEW book \in Seq(SoundLoan), NEW l \in SoundLoan, NEW new, new = Append(book, l)
    PROVE  /\ SumTo(Shares(book), Len(book)) \in Nat
           /\ SumTo(Shares(new), Len(new)) = SumTo(Shares(book), Len(book)) + InterestShare(l)
<1> DEFINE n == Len(book)
<1>1. n \in Nat /\ Len(new) = n + 1 /\ new \in Seq(SoundLoan)
      /\ (\A i \in 1..n : new[i] = book[i]) /\ new[n + 1] = l
    OBVIOUS
<1> HIDE DEF n
<1>2. \A x \in SoundLoan : InterestShare(x) \in Nat
    BY SharesAre
<1>3. Shares(book) \in [1..n -> Nat] /\ \A i \in 1..n : Shares(book)[i] = InterestShare(book[i])
    BY <1>2 DEF Shares, n
<1>4. /\ Shares(new) \in [1..(n + 1) -> Nat]
      /\ \A i \in 1..(n + 1) : Shares(new)[i] = InterestShare(new[i])
    BY <1>1, <1>2 DEF Shares
<1>5. /\ \A i \in 1..n : Shares(new)[i] = Shares(book)[i]
      /\ Shares(new)[n + 1] = InterestShare(l)
    BY <1>1, <1>3, <1>4
<1>6. SumTo(Shares(new), n + 1) = SumTo(Shares(book), n) + Shares(new)[n + 1]
    <2>1. Shares(book) \in [1..n -> Int] /\ Shares(new) \in [1..(n + 1) -> Int]
        BY <1>3, <1>4
    <2> QED BY <1>1, <1>5, <2>1, SumExtend
<1>7. SumTo(Shares(book), n) \in Nat
    BY <1>1, <1>3, SumBounds
<1> QED
    BY <1>1, <1>5, <1>6, <1>7 DEF n

LEMMA SharesAfterChange ==
    ASSUME NEW n \in Nat, NEW book \in Seq(SoundLoan), NEW new \in Seq(SoundLoan),
           Len(book) = n, Len(new) = n, NEW id \in 1..n,
           \A i \in 1..n : i # id => new[i] = book[i]
    PROVE  /\ SumTo(Shares(book), n) \in Nat
           /\ SumTo(Shares(new), n)
                = SumTo(Shares(book), n) + InterestShare(new[id]) - InterestShare(book[id])
<1>1. \A x \in SoundLoan : InterestShare(x) \in Nat
    BY SharesAre
<1>2. /\ Shares(book) \in [1..n -> Nat] /\ Shares(book) \in [1..n -> Int]
      /\ \A i \in 1..n : Shares(book)[i] = InterestShare(book[i])
    BY <1>1 DEF Shares
<1>3. /\ Shares(new) \in [1..n -> Int]
      /\ \A i \in 1..n : Shares(new)[i] = InterestShare(new[i])
    BY <1>1 DEF Shares
<1>4. \A i \in 1..n : i # id => Shares(new)[i] = Shares(book)[i]
    BY <1>2, <1>3
<1>5. SumTo(Shares(new), n) = SumTo(Shares(book), n) + Shares(new)[id] - Shares(book)[id]
    BY <1>2, <1>3, <1>4, SumUpdate
<1>6. SumTo(Shares(book), n) \in Nat
    BY <1>2, SumBounds
<1> QED
    BY <1>2, <1>3, <1>5, <1>6
LEMMA OthersLeaveTheFees ==
    ASSUME [Next]_vars, ~Repays, protocolFeesAccrued \in Nat, swept \in Nat
    PROVE  protocolFeesAccrued' + swept' = protocolFeesAccrued + swept
<1>1. CASE SweepFees
    BY <1>1 DEF SweepFees
<1>2. CASE Opens
    BY <1>2 DEF Opens, CreateLoan, historyVars
<1>3. CASE Liquidates
    BY <1>3 DEF Liquidates, Liquidate, historyVars
<1>4. CASE ~SweepFees /\ ~Opens /\ ~Liquidates
    <2>1. ASSUME NEW a, NEW amount, Fund(a, amount)
          PROVE  UNCHANGED <<protocolFeesAccrued, swept>>
        BY <2>1 DEF Fund, bookVars
    <2>2. ASSUME NEW a, NEW amount, WithdrawLiquidity(a, amount)
          PROVE  UNCHANGED <<protocolFeesAccrued, swept>>
        BY <2>2 DEF WithdrawLiquidity, bookVars
    <2>3. UNCHANGED <<protocolFeesAccrued, swept>>
        BY <1>4, <2>1, <2>2
           DEF Next, vars, bookVars, historyVars, Tick, Opens, Repays, Liquidates
    <2> QED BY <2>3
<1> QED
    BY <1>1, <1>2, <1>3, <1>4

LEMMA StepKeepsFees ==
    ASSUME IInv, FeesComeFromInterest, [Next]_vars
    PROVE  FeesComeFromInterest'
<1> DEFINE n == Len(loans)
<1>0. /\ loans \in Seq(SoundLoan) /\ protocolFeesAccrued \in Nat /\ swept \in Nat /\ n \in Nat
    BY Facts DEF TypedState
<1>1. IInv'
    BY StepKeepsBooks
<1>2. loans' \in Seq(SoundLoan) /\ protocolFeesAccrued' \in Nat /\ swept' \in Nat
    BY <1>1 DEF IInv, TypeOK
<1>3. protocolFeesAccrued + swept <= SumTo(Shares(loans), n)
    BY DEF FeesComeFromInterest, Shares, LoanIds
<1> SUFFICES protocolFeesAccrued' + swept' <= SumTo(Shares(loans'), Len(loans'))
    BY DEF FeesComeFromInterest, Shares, LoanIds
<1>4. CASE Opens
    <2>1. PICK l \in SoundLoan : loans' = Append(loans, l)
        BY <1>4, OpenWrites DEF Opens
    <2>2. /\ SumTo(Shares(loans), n) \in Nat
          /\ SumTo(Shares(loans'), Len(loans')) = SumTo(Shares(loans), n) + InterestShare(l)
        BY <1>0, <2>1, SharesAfterOpen
    <2>3. InterestShare(l) \in Nat
        BY SharesAre
    <2>4. protocolFeesAccrued' + swept' = protocolFeesAccrued + swept
        BY <1>0, <1>4 DEF Opens, CreateLoan, historyVars
    <2> HIDE DEF n
    <2> QED BY <1>0, <1>3, <2>2, <2>3, <2>4
<1>5. ASSUME NEW id \in LoanIds, NEW l \in SoundLoan, loans' = [loans EXCEPT ![id] = l],
             NEW fee \in Nat, InterestShare(loans[id]) + fee <= InterestShare(l),
             protocolFeesAccrued' + swept' = protocolFeesAccrued + swept + fee
      PROVE  protocolFeesAccrued' + swept' <= SumTo(Shares(loans'), Len(loans'))
    <2>1. /\ Len(loans') = n /\ id \in 1..n /\ loans'[id] = l
          /\ \A i \in 1..n : i # id => loans'[i] = loans[i]
        BY <1>0, <1>5 DEF LoanIds
    <2>2. loans[id] \in SoundLoan
        BY <1>0, <2>1
    <2>3. /\ SumTo(Shares(loans), n) \in Nat
          /\ SumTo(Shares(loans'), n)
               = SumTo(Shares(loans), n) + InterestShare(loans'[id]) - InterestShare(loans[id])
        BY <1>0, <1>2, <2>1, SharesAfterChange
    <2>4. InterestShare(l) \in Nat /\ InterestShare(loans[id]) \in Nat
        BY <2>2, SharesAre
    <2> DEFINE sum == SumTo(Shares(loans), n)
               old == InterestShare(loans[id])
               new == InterestShare(l)
    <2>5. /\ SumTo(Shares(loans'), Len(loans')) = sum + new - old
          /\ sum \in Nat /\ new \in Nat /\ old \in Nat /\ old + fee <= new
          /\ protocolFeesAccrued + swept <= sum
        BY <1>3, <1>5, <2>1, <2>3, <2>4
    <2> HIDE DEF sum, old, new
    <2>6. protocolFeesAccrued + swept + fee <= sum + new - old
        BY <1>0, <1>5, <2>5
    <2> QED BY <1>5, <2>5, <2>6
<1>6. CASE Repays
    <2>1. PICK id \in LoanIds, asked \in RepayAmounts : Repay(id, asked)
        BY <1>6 DEF Repays
    <2> DEFINE old    == loans[id]
               amount == IF asked > Remaining(old) THEN Remaining(old) ELSE asked
    <2>2. /\ old \in SoundLoan /\ amount \in Nat /\ swept' = swept
          /\ protocolFeesAccrued' = protocolFeesAccrued + FeeOn(old, amount)
        BY <2>1, RepayMoves
    <2>3. PICK l \in SoundLoan :
            /\ loans' = [loans EXCEPT ![id] = l]
            /\ l.principal = old.principal /\ l.totalOwed = old.totalOwed
            /\ l.totalRepaid = old.totalRepaid + amount
        BY <2>1, RepayMoves
    <2> HIDE DEF amount
    <2>4. FeeOn(old, amount) \in Nat
        BY <2>2, SharesAre
    <2>5. InterestShare(old) + FeeOn(old, amount) <= InterestShare(l)
        BY <2>2, <2>3, PaymentCoversFee
    <2>6. protocolFeesAccrued' + swept' = protocolFeesAccrued + swept + FeeOn(old, amount)
        BY <1>0, <2>2, <2>4
    <2> QED BY <1>5, <2>3, <2>4, <2>5, <2>6
<1>7. CASE Liquidates
    <2>1. PICK id \in LoanIds : Liquidate(id)
        BY <1>7 DEF Liquidates
    <2>2. PICK l \in SoundLoan :
            /\ loans' = [loans EXCEPT ![id] = l]
            /\ l.principal = loans[id].principal /\ l.totalOwed = loans[id].totalOwed
            /\ l.totalRepaid >= loans[id].totalRepaid
        BY <2>1, LiquidateWrites
    <2>3. loans[id] \in SoundLoan
        BY <1>0 DEF LoanIds
    <2>4. InterestShare(loans[id]) \in Nat /\ InterestShare(loans[id]) <= InterestShare(l)
        BY <2>2, <2>3, SharesAre, CollectionKeepsShare
    <2>5. InterestShare(loans[id]) + 0 <= InterestShare(l)
        BY <2>4
    <2>6. protocolFeesAccrued' + swept' = protocolFeesAccrued + swept + 0
        BY <1>0, <2>1 DEF Liquidate, historyVars
    <2> QED BY <1>5, <2>2, <2>5, <2>6
<1>8. CASE ~Opens /\ ~Repays /\ ~Liquidates
    <2>1. loans' = loans
        BY <1>8, OthersLeaveTheBook
    <2>2. protocolFeesAccrued' + swept' = protocolFeesAccrued + swept
        BY <1>0, <1>8, OthersLeaveTheFees
    <2> QED BY <1>3, <2>1, <2>2
<1> QED
    BY <1>4, <1>6, <1>7, <1>8

(* The fees, swept or not, stay within the protocol's share of the interest*)
(* in the money received, for every way of splitting the payments: each    *)
(* floor loses something, and never gains.                                 *)
THEOREM FeesAlwaysComeFromInterest == Spec => []FeesComeFromInterest
<1>1. Init => FeesComeFromInterest
    <2> SUFFICES ASSUME Init PROVE FeesComeFromInterest
        OBVIOUS
    <2>1. loans = <<>> /\ protocolFeesAccrued = 0 /\ swept = 0 /\ Len(loans) = 0
        BY DEF Init
    <2>2. [i \in LoanIds |-> InterestShare(loans[i])] \in [1..0 -> Int]
        BY <2>1 DEF LoanIds
    <2>3. \A i \in 1..0 : [j \in LoanIds |-> InterestShare(loans[j])][i] = 0
        OBVIOUS
    <2>4. SumTo([i \in LoanIds |-> InterestShare(loans[i])], 0) = 0
        BY <2>2, <2>3, SumOfZeros
    <2> QED BY <2>1, <2>4 DEF FeesComeFromInterest
<1>2. IInv /\ FeesComeFromInterest /\ [Next]_vars => FeesComeFromInterest'
    BY StepKeepsFees
<1> QED
    BY <1>1, <1>2, LineInvariant, PTL DEF Spec
-----------------------------------------------------------------------------
(* The score.                                                              *)

LEMMA ThresholdClimbs ==
    ASSUME NEW l, l.installmentCount \in Nat \ {0}, l.totalOwed \in Nat \ {0},
           NEW k \in Nat, NEW m \in Nat, k <= m
    PROVE  ThresholdFor(l, k) <= ThresholdFor(l, m)
<1> DEFINE n == l.installmentCount
           o == l.totalOwed
<1>0. n \in Nat /\ 0 < n /\ n \in Positive /\ o \in Nat
    BY DEF Positive
<1>1. CASE k = 0
    <2>1. ThresholdFor(l, k) = 0 /\ ThresholdFor(l, m) \in Nat
        BY <1>1, ThresholdIsNatural DEF ThresholdFor
    <2> QED BY <2>1
<1>2. CASE k # 0 /\ m >= n
    <2>1. ThresholdFor(l, m) = o
        BY <1>0, <1>2 DEF ThresholdFor
    <2>2. ThresholdFor(l, k) <= o
        BY <1>2, ThresholdBounds
    <2> QED BY <2>1, <2>2
<1>3. CASE k # 0 /\ m < n
    <2> DEFINE p == (o * k + n - 1) \div n
               q == (o * m + n - 1) \div n
    <2>1. ThresholdFor(l, k) = p /\ ThresholdFor(l, m) = q
        BY <1>0, <1>3 DEF ThresholdFor
    <2> HIDE DEF n, o
    <2>2. o * k \in Nat /\ o * m \in Nat /\ o * k <= o * m
        BY <1>0
    <2>3. o * k + n - 1 \in Nat /\ o * m + n - 1 \in Nat /\ o * k + n - 1 <= o * m + n - 1
        BY <1>0, <2>2
    <2>4. p \in Nat /\ n * p <= o * k + n - 1
        BY <1>0, <2>3, Quotient
    <2>5. \A w \in Nat : w * n <= o * m + n - 1 => w <= q
        BY <1>0, <2>3, Quotient
    <2> HIDE DEF p, q
    <2>6. p * n = n * p /\ n * p \in Nat
        BY <1>0, <2>4
    <2>7. p * n <= o * m + n - 1
        BY <2>3, <2>4, <2>6
    <2>8. p <= q
        BY <2>4, <2>5, <2>7
    <2> QED BY <2>1, <2>8
<1> QED
    BY <1>1, <1>2, <1>3

(* More money never takes an instalment back.                              *)
LEMMA InstallmentsClimb ==
    ASSUME NEW old \in SoundLoan, NEW new \in SoundLoan, Matches(old), Matches(new),
           old.status = "Active", new.status # "Liquidated",
           new.totalOwed = old.totalOwed, new.installmentCount = old.installmentCount,
           new.totalRepaid >= old.totalRepaid
    PROVE  old.installmentsPaid <= new.installmentsPaid
<1>0. /\ old.installmentCount \in Nat \ {0} /\ old.totalOwed \in Nat \ {0}
      /\ old.totalRepaid \in Nat /\ new.totalRepaid \in Nat
      /\ old.installmentsPaid \in Nat /\ new.installmentsPaid \in Nat
      /\ new.status \in {"Active", "Repaid"}
    BY LoanFields
<1> SUFFICES ASSUME new.installmentsPaid < old.installmentsPaid PROVE FALSE
    BY <1>0
<1>1. /\ old.totalRepaid >= ThresholdFor(old, old.installmentsPaid)
      /\ old.installmentsPaid < old.installmentCount
    BY DEF Matches
<1>2. CASE new.status = "Repaid"
    <2>1. new.installmentsPaid = old.installmentCount
        BY <1>2 DEF Matches
    <2> QED BY <1>0, <1>1, <2>1
<1>3. CASE new.status = "Active"
    <2>1. new.totalRepaid < ThresholdFor(new, new.installmentsPaid + 1)
        BY <1>3 DEF Matches
    <2>2. ThresholdFor(new, new.installmentsPaid + 1) = ThresholdFor(old, new.installmentsPaid + 1)
        BY DEF ThresholdFor
    <2>3. new.installmentsPaid + 1 \in Nat /\ new.installmentsPaid + 1 <= old.installmentsPaid
        BY <1>0
    <2>4. ThresholdFor(old, new.installmentsPaid + 1) <= ThresholdFor(old, old.installmentsPaid)
        BY <1>0, <2>3, ThresholdClimbs
    <2>5. /\ ThresholdFor(old, new.installmentsPaid + 1) \in Nat
          /\ ThresholdFor(old, old.installmentsPaid) \in Nat
        BY <1>0, <2>3, ThresholdIsNatural
    <2> QED BY <1>0, <1>1, <2>1, <2>2, <2>4, <2>5
<1> QED
    BY <1>0, <1>2, <1>3

PaidBy(l, a) == IF l.borrower = a THEN l.installmentsPaid ELSE 0
Ladders(book, a) == [i \in 1..Len(book) |-> PaidBy(book[i], a)]

LEMMA LaddersAre ==
    ASSUME NEW book \in Seq(SoundLoan), NEW a
    PROVE  /\ Ladders(book, a) \in [1..Len(book) -> Nat]
           /\ \A i \in 1..Len(book) : Ladders(book, a)[i] = PaidBy(book[i], a)
           /\ SumTo(Ladders(book, a), Len(book)) \in Nat
<1>1. Len(book) \in Nat /\ \A i \in 1..Len(book) : PaidBy(book[i], a) \in Nat
    BY LoanFields DEF PaidBy
<1>2. /\ Ladders(book, a) \in [1..Len(book) -> Nat]
      /\ \A i \in 1..Len(book) : Ladders(book, a)[i] = PaidBy(book[i], a)
    BY <1>1 DEF Ladders
<1> QED
    BY <1>1, <1>2, SumBounds

LEMMA LaddersAfterOpen ==
    ASSUME NEW book \in Seq(SoundLoan), NEW new \in Seq(SoundLoan), NEW n \in Nat,
           Len(book) = n, Len(new) = n + 1, \A i \in 1..n : new[i] = book[i], NEW a
    PROVE  SumTo(Ladders(new, a), n + 1) = SumTo(Ladders(book, a), n) + PaidBy(new[n + 1], a)
<1>1. /\ Ladders(book, a) \in [1..n -> Int]
      /\ \A i \in 1..n : Ladders(book, a)[i] = PaidBy(book[i], a)
    BY LaddersAre
<1>2. /\ Ladders(new, a) \in [1..(n + 1) -> Int]
      /\ \A i \in 1..(n + 1) : Ladders(new, a)[i] = PaidBy(new[i], a)
    BY LaddersAre
<1>3. \A i \in 1..n : Ladders(new, a)[i] = Ladders(book, a)[i]
    BY <1>1, <1>2
<1>4. SumTo(Ladders(new, a), n + 1) = SumTo(Ladders(book, a), n) + Ladders(new, a)[n + 1]
    BY <1>1, <1>2, <1>3, SumExtend
<1> QED
    BY <1>2, <1>4

LEMMA LaddersAfterChange ==
    ASSUME NEW book \in Seq(SoundLoan), NEW new \in Seq(SoundLoan), NEW n \in Nat,
           Len(book) = n, Len(new) = n, NEW id \in 1..n,
           \A i \in 1..n : i # id => new[i] = book[i], NEW a
    PROVE  SumTo(Ladders(new, a), n)
              = SumTo(Ladders(book, a), n) + PaidBy(new[id], a) - PaidBy(book[id], a)
<1>1. /\ Ladders(book, a) \in [1..n -> Int]
      /\ \A i \in 1..n : Ladders(book, a)[i] = PaidBy(book[i], a)
    BY LaddersAre
<1>2. /\ Ladders(new, a) \in [1..n -> Int]
      /\ \A i \in 1..n : Ladders(new, a)[i] = PaidBy(new[i], a)
    BY LaddersAre
<1>3. \A i \in 1..n : i # id => Ladders(new, a)[i] = Ladders(book, a)[i]
    BY <1>1, <1>2
<1>4. SumTo(Ladders(new, a), n)
        = SumTo(Ladders(book, a), n) + Ladders(new, a)[id] - Ladders(book, a)[id]
    BY <1>1, <1>2, <1>3, SumUpdate
<1> QED
    BY <1>1, <1>2, <1>4
Counted(p) == p.onTimePayments + p.latePayments

LEMMA PaymentScores ==
    ASSUME profile \in [Accounts -> Profile], NEW b \in Accounts, NEW a \in Accounts,
           RecordOnTimePayment(b) \/ RecordLatePayment(b)
    PROVE  Counted(profile'[a]) = Counted(profile[a]) + (IF a = b THEN 1 ELSE 0)
<1>1. profile[a].onTimePayments \in Nat /\ profile[a].latePayments \in Nat
    BY DEF Profile
<1>2. CASE a # b
    <2>1. profile'[a] = profile[a]
        BY <1>2 DEF RecordOnTimePayment, RecordLatePayment
    <2> QED BY <1>1, <1>2, <2>1 DEF Counted
<1>3. CASE a = b /\ RecordOnTimePayment(b)
    <2>1. /\ profile'[a].onTimePayments = profile[a].onTimePayments + 1
          /\ profile'[a].latePayments = profile[a].latePayments
        BY <1>3 DEF RecordOnTimePayment, Profile
    <2> QED BY <1>1, <1>3, <2>1 DEF Counted
<1>4. CASE a = b /\ RecordLatePayment(b)
    <2>1. /\ profile'[a].onTimePayments = profile[a].onTimePayments
          /\ profile'[a].latePayments = profile[a].latePayments + 1
        BY <1>4 DEF RecordLatePayment, Profile
    <2> QED BY <1>1, <1>4, <2>1 DEF Counted
<1> QED
    BY <1>2, <1>3, <1>4

LEMMA LiquidationScores ==
    ASSUME profile \in [Accounts -> Profile], NEW b \in Accounts, NEW a \in Accounts,
           RecordLiquidation(b)
    PROVE  Counted(profile'[a]) = Counted(profile[a])
<1>1. /\ profile'[a].onTimePayments = profile[a].onTimePayments
      /\ profile'[a].latePayments = profile[a].latePayments
    BY DEF RecordLiquidation, Profile
<1> QED
    BY <1>1 DEF Counted

LEMMA OthersLeaveTheScores ==
    ASSUME [Next]_vars, ~Repays, ~Liquidates
    PROVE  profile' = profile
<1>1. CASE Opens
    BY <1>1 DEF Opens, CreateLoan, scoreVars
<1>2. CASE SweepFees
    BY <1>2 DEF SweepFees, scoreVars
<1>3. CASE ScoreNext
    BY <1>3 DEF ScoreNext, SetWriter, SetBoostVault
<1>4. CASE ~Opens /\ ~SweepFees /\ ~ScoreNext
    <2>1. ASSUME NEW a, NEW amount, Fund(a, amount) PROVE UNCHANGED scoreVars
        BY <2>1 DEF Fund
    <2>2. ASSUME NEW a, NEW amount, WithdrawLiquidity(a, amount) PROVE UNCHANGED scoreVars
        BY <2>2 DEF WithdrawLiquidity
    <2>3. UNCHANGED scoreVars
        BY <1>4, <2>1, <2>2 DEF Next, vars, Tick, Opens, Repays, Liquidates
    <2> QED BY <2>3 DEF scoreVars
<1> QED
    BY <1>1, <1>2, <1>3, <1>4

LEMMA StepKeepsScores ==
    ASSUME IInv, InstallmentsMatchMoney, ScoredPerInstallment, [Next]_vars
    PROVE  ScoredPerInstallment'
<1> DEFINE n == Len(loans)
<1>0. loans \in Seq(SoundLoan) /\ n \in Nat /\ profile \in [Accounts -> Profile]
    BY Facts DEF TypedState
<1>1. loans' \in Seq(SoundLoan)
    BY StepKeepsBooks DEF IInv
<1>2. \A a \in Accounts : Counted(profile[a]) <= SumTo(Ladders(loans, a), n)
    BY DEF ScoredPerInstallment, Counted, Ladders, PaidBy, LoanIds
<1> SUFFICES ASSUME NEW a \in Accounts
             PROVE  Counted(profile'[a]) <= SumTo(Ladders(loans', a), Len(loans'))
    BY DEF ScoredPerInstallment, Counted, Ladders, PaidBy, LoanIds
<1> DEFINE sum == SumTo(Ladders(loans, a), n)
<1>3. sum \in Nat /\ Counted(profile[a]) \in Nat /\ Counted(profile[a]) <= sum
    <2>1. profile[a].onTimePayments \in Nat /\ profile[a].latePayments \in Nat
        BY <1>0 DEF Profile
    <2> QED BY <1>0, <1>2, <2>1, LaddersAre DEF Counted
<1>4. CASE Opens
    <2>1. PICK l \in SoundLoan : loans' = Append(loans, l) /\ l.installmentsPaid = 0
        BY <1>4, OpenWrites DEF Opens
    <2>2. Len(loans') = n + 1 /\ loans'[n + 1] = l /\ \A i \in 1..n : loans'[i] = loans[i]
        BY <1>0, <2>1
    <2>3. SumTo(Ladders(loans', a), n + 1) = sum + PaidBy(loans'[n + 1], a)
        BY <1>0, <1>1, <2>2, LaddersAfterOpen
    <2>4. PaidBy(loans'[n + 1], a) = 0
        BY <2>1, <2>2 DEF PaidBy
    <2>5. profile' = profile
        BY <1>4 DEF Opens, CreateLoan, scoreVars
    <2> HIDE DEF n, sum
    <2> QED BY <1>3, <2>2, <2>3, <2>4, <2>5
<1>5. ASSUME NEW id \in LoanIds, NEW l \in SoundLoan, loans' = [loans EXCEPT ![id] = l],
             Counted(profile'[a]) \in Nat,
             Counted(profile'[a]) - Counted(profile[a]) <= PaidBy(l, a) - PaidBy(loans[id], a)
      PROVE  Counted(profile'[a]) <= SumTo(Ladders(loans', a), Len(loans'))
    <2>1. /\ Len(loans') = n /\ id \in 1..n /\ loans'[id] = l /\ loans[id] \in SoundLoan
          /\ \A i \in 1..n : i # id => loans'[i] = loans[i]
        BY <1>0, <1>5 DEF LoanIds
    <2>2. SumTo(Ladders(loans', a), n) = sum + PaidBy(loans'[id], a) - PaidBy(loans[id], a)
        BY <1>0, <1>1, <2>1, LaddersAfterChange
    <2>3. PaidBy(l, a) \in Nat /\ PaidBy(loans[id], a) \in Nat
        BY <2>1, LoanFields DEF PaidBy
    <2> DEFINE was == Counted(profile[a])
               is  == Counted(profile'[a])
               old == PaidBy(loans[id], a)
               new == PaidBy(l, a)
    <2>4. /\ SumTo(Ladders(loans', a), Len(loans')) = sum + new - old
          /\ sum \in Nat /\ was \in Nat /\ is \in Nat /\ new \in Nat /\ old \in Nat
          /\ was <= sum /\ is - was <= new - old
        BY <1>3, <1>5, <2>1, <2>2, <2>3
    <2> HIDE DEF sum, was, is, old, new
    <2>5. is <= sum + new - old
        BY <2>4
    <2> QED BY <2>4, <2>5 DEF is
<1>6. CASE Repays
    <2>1. PICK id \in LoanIds, asked \in RepayAmounts : Repay(id, asked)
        BY <1>6 DEF Repays
    <2> DEFINE old    == loans[id]
               amount == IF asked > Remaining(old) THEN Remaining(old) ELSE asked
    <2>2. /\ old \in SoundLoan /\ old.borrower \in Accounts /\ amount \in Nat
          /\ old.status = "Active"
        BY <2>1, RepayMoves
    <2>3. PICK l \in SoundLoan :
            /\ loans' = [loans EXCEPT ![id] = l] /\ Matches(l)
            /\ l.borrower = old.borrower
            /\ l.totalOwed = old.totalOwed /\ l.installmentCount = old.installmentCount
            /\ l.totalRepaid = old.totalRepaid + amount
            /\ l.status # "Liquidated"
            /\ ScorePayment(old, l.installmentsPaid)
        BY <2>1, RepayMoves
    <2> HIDE DEF amount
    <2>4. Matches(old)
        BY DEF InstallmentsMatchMoney, Matches
    <2>5. l.installmentsPaid \in Nat /\ old.installmentsPaid \in Nat /\ old.totalRepaid \in Nat
        BY <2>2, LoanFields
    <2>6. l.totalRepaid >= old.totalRepaid
        BY <2>2, <2>3, <2>5
    <2>7. old.installmentsPaid <= l.installmentsPaid
        BY <2>2, <2>3, <2>4, <2>6, InstallmentsClimb
    <2> HIDE DEF old
    <2>8. CASE l.installmentsPaid <= old.installmentsPaid
        <3>1. profile' = profile
            BY <2>3, <2>8 DEF ScorePayment
        <3>2. PaidBy(l, a) = PaidBy(old, a)
            BY <2>3, <2>5, <2>7, <2>8 DEF PaidBy
        <3>3. PaidBy(l, a) \in Nat /\ PaidBy(old, a) \in Nat
            BY <2>5 DEF PaidBy
        <3>4. Counted(profile'[a]) - Counted(profile[a]) <= PaidBy(l, a) - PaidBy(old, a)
            BY <1>3, <3>1, <3>2, <3>3
        <3> QED BY <1>3, <1>5, <2>3, <3>1, <3>4 DEF old
    <2>9. CASE l.installmentsPaid > old.installmentsPaid
        <3>1. RecordOnTimePayment(old.borrower) \/ RecordLatePayment(old.borrower)
            BY <2>3, <2>5, <2>9 DEF ScorePayment
        <3>2. Counted(profile'[a]) = Counted(profile[a]) + (IF a = old.borrower THEN 1 ELSE 0)
            BY <1>0, <2>2, <3>1, PaymentScores
        <3>3. (IF a = old.borrower THEN 1 ELSE 0) <= PaidBy(l, a) - PaidBy(old, a)
            BY <2>3, <2>5, <2>9 DEF PaidBy
        <3>4. PaidBy(l, a) \in Nat /\ PaidBy(old, a) \in Nat
            BY <2>5 DEF PaidBy
        <3>5. /\ Counted(profile'[a]) \in Nat
              /\ Counted(profile'[a]) - Counted(profile[a]) <= PaidBy(l, a) - PaidBy(old, a)
            BY <1>3, <3>2, <3>3, <3>4
        <3> QED BY <1>5, <2>3, <3>5 DEF old
    <2> QED BY <2>5, <2>8, <2>9
<1>7. CASE Liquidates
    <2>1. PICK id \in LoanIds : Liquidate(id)
        BY <1>7 DEF Liquidates
    <2>2. PICK l \in SoundLoan :
            /\ loans' = [loans EXCEPT ![id] = l]
            /\ l.borrower = loans[id].borrower
            /\ l.installmentsPaid = loans[id].installmentsPaid
        BY <2>1, LiquidateWrites
    <2>3. loans[id].borrower \in Accounts /\ PaidBy(loans[id], a) \in Nat
        <3>1. loans[id] \in SoundLoan
            BY <1>0 DEF LoanIds
        <3> QED BY <3>1, LoanFields DEF PaidBy
    <2>4. PaidBy(l, a) = PaidBy(loans[id], a)
        BY <2>2 DEF PaidBy
    <2>5. Counted(profile'[a]) = Counted(profile[a])
        BY <1>0, <2>1, <2>3, LiquidationScores DEF Liquidate
    <2>6. Counted(profile'[a]) - Counted(profile[a]) <= PaidBy(l, a) - PaidBy(loans[id], a)
        BY <1>3, <2>3, <2>4, <2>5
    <2> QED BY <1>3, <1>5, <2>2, <2>5, <2>6
<1>8. CASE ~Opens /\ ~Repays /\ ~Liquidates
    <2>1. loans' = loans /\ profile' = profile
        BY <1>8, OthersLeaveTheBook, OthersLeaveTheScores
    <2> QED BY <1>3, <2>1
<1> QED
    BY <1>4, <1>6, <1>7, <1>8

(* A score moves at most once for each instalment completed, for every     *)
(* schedule and every way of cutting the payments: since more money never  *)
(* takes an instalment back, the instalments of the book only grow, and by *)
(* at least one whenever a payment is scored.                              *)
THEOREM ScoresFollowInstallments == Spec => []ScoredPerInstallment
<1>1. Init => ScoredPerInstallment
    <2> SUFFICES ASSUME Init, NEW a \in Accounts
                 PROVE  Counted(profile[a]) <= SumTo(Ladders(loans, a), Len(loans))
        BY DEF ScoredPerInstallment, Counted, Ladders, PaidBy, LoanIds
    <2>1. loans = <<>> /\ Len(loans) = 0 /\ profile = [x \in Accounts |-> NoProfile]
        BY DEF Init, ScoreInit
    <2>2. Ladders(loans, a) \in [1..0 -> Int] /\ \A i \in 1..0 : Ladders(loans, a)[i] = 0
        BY <2>1 DEF Ladders
    <2>3. SumTo(Ladders(loans, a), 0) = 0
        BY <2>2, SumOfZeros
    <2>4. Counted(profile[a]) = 0
        BY <2>1 DEF Counted, NoProfile
    <2> QED BY <2>1, <2>3, <2>4
<1>2. IInv /\ InstallmentsMatchMoney /\ ScoredPerInstallment /\ [Next]_vars => ScoredPerInstallment'
    BY StepKeepsScores
<1> QED
    BY <1>1, <1>2, LineInvariant, InstallmentsAlwaysMatchMoney, PTL DEF Spec
-----------------------------------------------------------------------------
(* The treasury's fees in the engine's cash.                               *)

LEMMA FeeIsAShare ==
    ASSUME NEW l \in SoundLoan, NEW amount \in Nat
    PROVE  FeeOn(l, amount) <= amount
<1> DEFINE i == Interest(l)
           o == l.totalOwed
           fee == FeeOn(l, amount)
<1>1. /\ l.principal \in Nat /\ l.totalOwed \in Nat /\ 0 < l.totalOwed
      /\ l.principal <= l.totalOwed /\ Interest(l) \in Nat
    BY LoanFields
<1>2. i \in Nat /\ o \in Nat /\ 0 < o /\ i <= o
    BY <1>1 DEF Interest
<1>3. /\ amount * i * 2000 \in Nat /\ 10000 * o \in Positive
      /\ fee = (amount * i * 2000) \div (10000 * o)
    BY SharesAre DEF ProtocolFeeBps
<1> HIDE DEF i, o, fee
<1>4. fee \in Nat /\ (10000 * o) * fee <= amount * i * 2000
    BY <1>3, Quotient
<1>5. amount * i <= amount * o /\ amount * i \in Nat /\ amount * o \in Nat
    BY <1>2
<1>6. amount * i * 2000 <= (amount * o) * 10000
    BY <1>5
<1> SUFFICES ASSUME amount + 1 <= fee PROVE FALSE
    BY <1>4 DEF fee
<1>7. o * (amount + 1) <= o * fee
    BY <1>2, <1>4
<1>8. o * (amount + 1) = amount * o + o /\ o * fee \in Nat /\ (10000 * o) * fee = 10000 * (o * fee)
    BY <1>2, <1>4
<1> QED
    BY <1>2, <1>4, <1>5, <1>6, <1>7, <1>8

LEMMA StepKeepsFeesCovered ==
    ASSUME IInv, [Next]_vars, ~Opens, usdc[Contract] >= protocolFeesAccrued
    PROVE  usdc'[Contract] >= protocolFeesAccrued'
<1>0. /\ usdc \in Ledgers /\ usdc[Contract] \in Nat /\ protocolFeesAccrued \in Nat
      /\ treasury \in Accounts /\ loans \in Seq(SoundLoan)
    BY Facts DEF TypedState
<1>1. ASSUME NEW to \in Accounts, NEW amount \in Nat, amount <= usdc[Contract],
             usdc' = Moved(usdc, Contract, to, amount)
      PROVE  usdc'[Contract] = usdc[Contract] - amount
    BY <1>0, <1>1, WalletsAre, MoveEffect
<1>2. ASSUME NEW from \in Accounts, NEW amount \in Nat, amount <= usdc[from],
             usdc' = Moved(usdc, from, Contract, amount)
      PROVE  usdc'[Contract] = usdc[Contract] + amount
    <2>1. from \in Wallets /\ from # Contract
        BY WalletsAre
    <2> QED BY <1>0, <1>2, <2>1, WalletsAre, MoveEffect
<1>3. ASSUME NEW a \in Accounts, NEW amount \in FundAmounts, Fund(a, amount)
      PROVE  usdc'[Contract] >= protocolFeesAccrued'
    <2>1. /\ amount \in Nat /\ amount <= usdc[a] /\ usdc' = Moved(usdc, a, Contract, amount)
          /\ protocolFeesAccrued' = protocolFeesAccrued
        BY <1>3, LineAssumption DEF Fund, Pullable, bookVars
    <2>2. usdc'[Contract] = usdc[Contract] + amount
        BY <1>2, <2>1
    <2> QED BY <1>0, <2>1, <2>2
<1>4. ASSUME NEW amount \in TakeAmounts, WithdrawLiquidity(Owner, amount)
      PROVE  usdc'[Contract] >= protocolFeesAccrued'
    <2>1. /\ amount \in Nat /\ amount <= Withdrawable
          /\ usdc' = Moved(usdc, Contract, Owner, amount)
          /\ protocolFeesAccrued' = protocolFeesAccrued /\ Owner \in Accounts
        BY <1>4, LineAssumption DEF WithdrawLiquidity, bookVars
    <2>2. amount <= usdc[Contract] - protocolFeesAccrued
        BY <1>0, <2>1 DEF Withdrawable
    <2>3. amount <= usdc[Contract]
        BY <1>0, <2>1, <2>2
    <2>4. usdc'[Contract] = usdc[Contract] - amount
        BY <1>1, <2>1, <2>3
    <2> QED BY <1>0, <2>1, <2>2, <2>4
<1>5. ASSUME NEW id \in LoanIds, NEW asked \in RepayAmounts, Repay(id, asked)
      PROVE  usdc'[Contract] >= protocolFeesAccrued'
    <2> DEFINE old    == loans[id]
               amount == IF asked > Remaining(old) THEN Remaining(old) ELSE asked
    <2>1. /\ old \in SoundLoan /\ old.borrower \in Accounts /\ amount \in Nat
          /\ protocolFeesAccrued' = protocolFeesAccrued + FeeOn(old, amount)
        BY <1>5, RepayMoves
    <2>2. amount <= usdc[old.borrower] /\ usdc' = Moved(usdc, old.borrower, Contract, amount)
        BY <1>5 DEF Repay, Pullable
    <2> HIDE DEF old, amount
    <2>3. usdc'[Contract] = usdc[Contract] + amount
        BY <1>2, <2>1, <2>2
    <2>4. FeeOn(old, amount) \in Nat /\ FeeOn(old, amount) <= amount
        BY <2>1, SharesAre, FeeIsAShare
    <2> QED BY <1>0, <2>1, <2>3, <2>4
<1>6. ASSUME NEW id \in LoanIds, Liquidate(id)
      PROVE  usdc'[Contract] >= protocolFeesAccrued'
    <2> DEFINE b           == loans[id].borrower
               outstanding == Remaining(loans[id])
               take        == Recoverable(b, outstanding)
               seized      == FromVault(b, outstanding - take)
    <2>1. take \in Nat /\ seized \in Nat /\ usdc'[Contract] = usdc[Contract] + take + seized
        BY <1>6, LiquidationMoves
    <2>2. protocolFeesAccrued' = protocolFeesAccrued
        BY <1>6 DEF Liquidate
    <2> HIDE DEF take, seized
    <2> QED BY <1>0, <2>1, <2>2
<1>7. CASE SweepFees
    <2>1. /\ protocolFeesAccrued <= usdc[Contract] /\ protocolFeesAccrued' = 0
          /\ usdc' = Moved(usdc, Contract, treasury, protocolFeesAccrued)
        BY <1>7 DEF SweepFees
    <2>2. usdc'[Contract] = usdc[Contract] - protocolFeesAccrued
        BY <1>0, <1>1, <2>1
    <2> QED BY <1>0, <2>1, <2>2
<1>8. ASSUME NEW a \in Accounts, NEW amount \in LockAmounts, Lock(a, amount)
      PROVE  usdc'[Contract] = usdc[Contract]
    <2>1. /\ amount \in Nat /\ amount <= usdc[a] /\ usdc' = Moved(usdc, a, Vault, amount)
          /\ a \in Wallets /\ a # Vault /\ a # Contract
        BY <1>8, VaultAssumption, WalletsAre DEF Lock, Pullable
    <2> QED BY <1>0, <2>1, WalletsAre, MoveEffect
<1>9. ASSUME NEW a \in Accounts, NEW amount \in LockAmounts,
              WithdrawCollateral(a, amount, activeDebtOf[a])
       PROVE  usdc'[Contract] = usdc[Contract]
    <2>1. usdc' = Moved(usdc, Vault, a, amount) /\ a \in Wallets /\ a # Contract
        BY <1>9, WalletsAre DEF WithdrawCollateral
    <2> QED BY <1>0, <2>1, WalletsAre DEF Moved, Ledgers
<1>10. ASSUME CoinNext PROVE usdc'[Contract] = usdc[Contract]
    <2>1. ASSUME NEW a \in Movers, NEW to \in Movers, NEW amount \in MoveAmounts,
                 Transfer(a, to, amount)
          PROVE  usdc'[Contract] = usdc[Contract]
        BY <1>0, <2>1, SendEffect, StablecoinAssumption
    <2> QED BY <1>10, <2>1 DEF CoinNext, Approve
<1>11. ASSUME VaultNext PROVE usdc'[Contract] = usdc[Contract]
    BY <1>8, <1>11 DEF VaultNext, SetCreditMultiplierBps, SetSeizer, SetLoanEngine, coinVars
<1>12. ASSUME UNCHANGED bookVars, usdc'[Contract] = usdc[Contract]
       PROVE  usdc'[Contract] >= protocolFeesAccrued'
    BY <1>12 DEF bookVars
<1>13. CASE Tick \/ UNCHANGED vars
    BY <1>12, <1>13 DEF Tick, vars, coinVars
<1> QED
    BY <1>3, <1>4, <1>5, <1>6, <1>7, <1>9, <1>10, <1>11, <1>12, <1>13 DEF Next, Opens, coinVars

(* Whatever is withdrawn, swept, repaid and liquidated, cash that covered  *)
(* the treasury's fees still covers them: only paying a merchant can leave *)
(* less than the treasury is owed.                                         *)
THEOREM FeesStayCovered == Spec => OnlyLendingSpendsFees
<1> DEFINE Covered ==
        /\ usdc[Contract] >= protocolFeesAccrued
        /\ usdc'[Contract] < protocolFeesAccrued'
        => Len(loans') > Len(loans)
<1>1. IInv /\ [Next]_vars => Covered
    <2> SUFFICES ASSUME IInv, [Next]_vars, usdc[Contract] >= protocolFeesAccrued,
                        usdc'[Contract] < protocolFeesAccrued'
                 PROVE  Len(loans') > Len(loans)
        OBVIOUS
    <2>1. CASE Opens
        <3>1. PICK l \in SoundLoan : loans' = Append(loans, l)
            BY <2>1, OpenWrites DEF Opens
        <3>2. loans \in Seq(SoundLoan) /\ Len(loans) \in Nat
            BY Facts DEF TypedState
        <3>3. Len(loans') = Len(loans) + 1
            BY <3>1, <3>2
        <3> QED BY <3>2, <3>3
    <2>2. CASE ~Opens
        <3>1. usdc'[Contract] >= protocolFeesAccrued'
            BY <2>2, StepKeepsFeesCovered
        <3>2. usdc'[Contract] \in Nat /\ protocolFeesAccrued' \in Nat
            BY StepKeepsBooks, WalletsAre DEF IInv, TypeOK, CoinTypeOK
        <3> QED BY <3>1, <3>2
    <2> QED BY <2>1, <2>2
<1> QED
    BY <1>1, LineInvariant, PTL DEF Spec, OnlyLendingSpendsFees

-----------------------------------------------------------------------------
(* The credit line implements InstalmentCredit.  The engine decides with a *)
(* counter and a ladder of rounded thresholds what the abstract plan says  *)
(* with fractions of the debt: the link is that the counter matches the    *)
(* money (InstallmentsMatchMoney), so that missing the next threshold is   *)
(* missing that fraction.                                                  *)

PlansOf(book) == [id \in 1..Len(book) |-> PlanOf(book[id])]

LEMMA PlansAre == Plans = PlansOf(loans) /\ Plans' = PlansOf(loans')
BY DEF Plans, PlansOf, LoanIds, PlanOf

LEMMA PlansAreASequence ==
    ASSUME NEW book \in Seq(SoundLoan)
    PROVE  /\ DOMAIN PlansOf(book) = 1..Len(book) /\ Len(PlansOf(book)) = Len(book)
           /\ Len(book) \in Nat
           /\ \A id \in 1..Len(book) : PlansOf(book)[id] = PlanOf(book[id])
<1>1. Len(book) \in Nat
    OBVIOUS
<1> QED
    BY <1>1 DEF PlansOf

LEMMA PlansAfterOpen ==
    ASSUME NEW book \in Seq(SoundLoan), NEW l \in SoundLoan
    PROVE  PlansOf(Append(book, l)) = Append(PlansOf(book), PlanOf(l))
<1> DEFINE n == Len(book)
           new == Append(book, l)
<1>1. /\ n \in Nat /\ Len(new) = n + 1 /\ new \in Seq(SoundLoan)
      /\ \A id \in 1..n : new[id] = book[id]
      /\ new[n + 1] = l
    OBVIOUS
<1>2. /\ DOMAIN PlansOf(book) = 1..n /\ Len(PlansOf(book)) = n
      /\ \A id \in 1..n : PlansOf(book)[id] = PlanOf(book[id])
    BY PlansAreASequence
<1>3. Append(PlansOf(book), PlanOf(l)) =
        [id \in 1..n + 1 |-> IF id = n + 1 THEN PlanOf(l) ELSE PlansOf(book)[id]]
    <2> DEFINE S == {PlanOf(x) : x \in SoundLoan}
    <2>1. PlanOf(l) \in S /\ \A id \in 1..n : PlanOf(book[id]) \in S
        OBVIOUS
    <2> HIDE DEF S
    <2>2. PlansOf(book) \in Seq(S)
        BY <1>1, <2>1 DEF PlansOf
    <2> QED BY <1>2, <2>1, <2>2, AppendIs
<1>4. \A id \in 1..n + 1 :
        PlanOf(new[id]) = IF id = n + 1 THEN PlanOf(l) ELSE PlansOf(book)[id]
    BY <1>1, <1>2
<1> QED
    BY <1>1, <1>3, <1>4 DEF PlansOf

(* Two plans over the same debt, count, start and interval.                *)
LEMMA PlanWith ==
    ASSUME NEW x \in SoundLoan, NEW y \in SoundLoan,
           x.totalOwed = y.totalOwed, x.installmentCount = y.installmentCount,
           x.startedAt = y.startedAt, x.interval = y.interval
    PROVE  PlanOf(x) = [PlanOf(y) EXCEPT !.paid = x.totalRepaid, !.state = PlanOf(x).state]
<1> DEFINE Shape == [owed : Nat, count : Nat, opened : Nat, every : Nat, paid : Nat,
                     state : {"open", "settled", "defaulted"}]
<1>1. \A l \in SoundLoan :
        /\ PlanOf(l) \in Shape /\ PlanOf(l).owed = l.totalOwed
        /\ PlanOf(l).count = l.installmentCount /\ PlanOf(l).opened = l.startedAt
        /\ PlanOf(l).every = l.interval /\ PlanOf(l).paid = l.totalRepaid
    BY LoanFields DEF PlanOf
<1>2. \A p, q \in Shape :
        p.owed = q.owed /\ p.count = q.count /\ p.opened = q.opened /\ p.every = q.every
        => p = [q EXCEPT !.paid = p.paid, !.state = p.state]
    OBVIOUS
<1> HIDE DEF Shape
<1> DEFINE p == PlanOf(x)
           q == PlanOf(y)
<1>3. /\ p \in Shape /\ q \in Shape /\ p.owed = q.owed /\ p.count = q.count
      /\ p.opened = q.opened /\ p.every = q.every /\ p.paid = x.totalRepaid
    BY <1>1
<1> HIDE DEF p, q
<1>4. p = [q EXCEPT !.paid = p.paid, !.state = p.state]
    BY <1>2, <1>3
<1> QED
    BY <1>3, <1>4 DEF p, q

Rewritten(plans, id, paid, state) == [plans EXCEPT ![id].paid = paid, ![id].state = state]

LEMMA PlansAfterChange ==
    ASSUME NEW book \in Seq(SoundLoan), NEW id \in 1..Len(book), NEW l \in SoundLoan,
           l.totalOwed = book[id].totalOwed, l.installmentCount = book[id].installmentCount,
           l.startedAt = book[id].startedAt, l.interval = book[id].interval
    PROVE  PlansOf([book EXCEPT ![id] = l]) =
              Rewritten(PlansOf(book), id, l.totalRepaid, PlanOf(l).state)
<1> DEFINE new == [book EXCEPT ![id] = l]
           p == PlansOf(book)
           q == [p EXCEPT ![id].paid = l.totalRepaid, ![id].state = PlanOf(l).state]
<1>1. /\ Len(new) = Len(book) /\ Len(book) \in Nat
      /\ \A i \in 1..Len(book) : new[i] = IF i = id THEN l ELSE book[i]
    OBVIOUS
<1>2. PlanOf(l) = [PlanOf(book[id]) EXCEPT !.paid = l.totalRepaid, !.state = PlanOf(l).state]
    <2>1. book[id] \in SoundLoan
        OBVIOUS
    <2> QED BY <2>1, PlanWith
<1>3. /\ DOMAIN p = 1..Len(book)
      /\ \A i \in 1..Len(book) : p[i] = PlanOf(book[i])
    BY PlansAreASequence
<1> HIDE DEF p
<1>4. /\ DOMAIN q = 1..Len(book)
      /\ \A i \in 1..Len(book) : i # id => q[i] = p[i]
    BY <1>3
<1>5. q[id] = [p[id] EXCEPT !.paid = l.totalRepaid, !.state = PlanOf(l).state]
    BY <1>3
<1>6. \A i \in 1..Len(book) : q[i] = PlanOf(new[i])
    <2> SUFFICES ASSUME NEW i \in 1..Len(book) PROVE q[i] = PlanOf(new[i])
        OBVIOUS
    <2>1. CASE i = id
        BY <1>1, <1>2, <1>3, <1>5, <2>1
    <2>2. CASE i # id
        BY <1>1, <1>3, <1>4, <2>2
    <2> QED BY <2>1, <2>2
<1>7. q = [i \in 1..Len(book) |-> q[i]]
    BY <1>4
<1> HIDE DEF q, new
<1>8. q = PlansOf(new)
    BY <1>1, <1>6, <1>7 DEF PlansOf
<1> QED
    BY <1>8 DEF q, new, p, Rewritten

(* A threshold missed is that fraction of the debt missed.                 *)
LEMMA ThresholdIsAFraction ==
    ASSUME NEW l \in SoundLoan, NEW k \in 1..l.installmentCount,
           l.totalRepaid < ThresholdFor(l, k)
    PROVE  l.totalRepaid * l.installmentCount < k * l.totalOwed
<1> DEFINE n == l.installmentCount
           o == l.totalOwed
           m == l.totalRepaid
           q == (o * k + n - 1) \div n
<1>1. n \in Positive /\ o \in Nat /\ m \in Nat /\ k \in Nat /\ 1 <= k /\ k <= n
    BY LoanFields DEF Positive
<1>2. CASE k = n
    <2>1. m < o
        BY <1>1, <1>2 DEF ThresholdFor, Positive
    <2> HIDE DEF n, o, m
    <2>2. m * n < n * o
        BY <1>1, <2>1 DEF Positive
    <2> QED BY <1>2, <2>2 DEF n, o, m
<1>3. CASE k # n
    <2>1. m < q
        BY <1>1, <1>3 DEF ThresholdFor, Positive
    <2>2. o * k \in Nat
        BY <1>1, ProductIsNatural
    <2>3. q \in Nat /\ n * q <= o * k + n - 1
        BY <1>1, <2>2, RoundedUpBounds
    <2> HIDE DEF n, o, m, q
    <2>4. n * (m + 1) <= n * q
        BY <1>1, <2>1, <2>3 DEF Positive
    <2>5. n * (m + 1) = m * n + n /\ m * n \in Nat /\ n * q \in Nat /\ k * o = o * k
        BY <1>1, <2>3 DEF Positive
    <2>6. m * n < k * o
        BY <1>1, <2>2, <2>3, <2>4, <2>5 DEF Positive
    <2> QED BY <2>6 DEF n, o, m
<1> QED
    BY <1>2, <1>3

-----------------------------------------------------------------------------
(* The three steps that write the book, and the clock.                     *)

LEMMA OpenIsAnOpen ==
    ASSUME IInv, NEW b \in Borrowers, NEW m \in Merchants, NEW principal \in Principals,
           NEW count \in Counts, NEW interval \in Intervals,
           CreateLoan(b, m, principal, count, interval)
    PROVE  Promise!Open
<1> DEFINE owed == principal + InterestOn(principal, count, interval)
           l == [borrower |-> b, merchant |-> m, principal |-> principal,
                 totalOwed |-> owed, totalRepaid |-> 0,
                 installmentCount |-> count, installmentsPaid |-> 0,
                 startedAt |-> now, interval |-> interval, status |-> "Active"]
<1>1. /\ loans' = Append(loans, l) /\ now' = now
      /\ count \in 1..MaxInstallments
      /\ interval \in Nat
    <2>1. count \in Nat /\ interval \in Nat
        BY LineAssumption
    <2>2. loans' = Append(loans, l) /\ now' = now /\ count # 0 /\ count <= MaxInstallments
        BY DEF CreateLoan
    <2> QED BY <2>1, <2>2 DEF MaxInstallments
<1>2. /\ l.totalOwed = owed /\ l.installmentCount = count /\ l.startedAt = now
      /\ l.interval = interval /\ l.totalRepaid = 0 /\ l.status = "Active"
    OBVIOUS
<1>3. loans \in Seq(SoundLoan) /\ loans' \in Seq(SoundLoan)
    BY OpenKeepsBooks DEF IInv
<1> HIDE DEF l, owed
<1>4. l \in SoundLoan
    <2>1. loans'[Len(loans) + 1] = l /\ Len(loans') = Len(loans) + 1
        BY <1>1, <1>3
    <2> QED BY <1>3, <2>1
<1>5. Plans' = Append(Plans, PlanOf(l))
    BY <1>1, <1>3, <1>4, PlansAre, PlansAfterOpen
<1>6. /\ Len(Plans) = Len(loans) /\ Len(loans) \in Nat
      /\ Len(Plans') = Len(loans) + 1 /\ Plans'[Len(loans) + 1] = PlanOf(l)
    <2>1. /\ Len(loans') = Len(loans) + 1 /\ loans'[Len(loans) + 1] = l /\ Len(loans) \in Nat
        BY <1>1, <1>3
    <2>2. Len(PlansOf(loans)) = Len(loans) /\ Len(PlansOf(loans')) = Len(loans')
        BY <1>3, PlansAreASequence
    <2>3. PlansOf(loans')[Len(loans) + 1] = PlanOf(l)
        <3>1. Len(loans) + 1 \in 1..Len(loans')
            BY <2>1
        <3> QED BY <1>3, <2>1, <3>1, PlansAreASequence
    <2> QED BY <2>1, <2>2, <2>3, PlansAre
<1>7. Promise!Fresh(PlanOf(l))
    <2>1. l.totalOwed \in Nat /\ 0 < l.totalOwed
        BY <1>4, LoanFields
    <2> QED BY <1>1, <1>2, <2>1 DEF Promise!Fresh, PlanOf
<1> QED
    BY <1>1, <1>5, <1>6, <1>7 DEF Promise!Open

(* Writing one loan over writes one plan, money and state only.            *)
LEMMA ChangeIsAChange ==
    ASSUME loans \in Seq(SoundLoan), NEW id \in LoanIds, NEW l \in SoundLoan,
           loans' = [loans EXCEPT ![id] = l],
           l.totalOwed = loans[id].totalOwed, l.installmentCount = loans[id].installmentCount,
           l.startedAt = loans[id].startedAt, l.interval = loans[id].interval
    PROVE  /\ id \in 1..Len(Plans) /\ loans[id] \in SoundLoan
           /\ Plans[id] = PlanOf(loans[id]) /\ Plans'[id].paid = l.totalRepaid
           /\ Plans' = [Plans EXCEPT ![id].paid = l.totalRepaid, ![id].state = PlanOf(l).state]
<1>1. /\ id \in 1..Len(loans) /\ loans[id] \in SoundLoan /\ loans' \in Seq(SoundLoan)
      /\ Len(loans') = Len(loans) /\ loans'[id] = l
    BY DEF LoanIds
<1>2. /\ Len(PlansOf(loans)) = Len(loans) /\ PlansOf(loans)[id] = PlanOf(loans[id])
    BY <1>1, PlansAreASequence
<1>3. PlansOf(loans')[id] = PlanOf(l)
    <2>1. id \in 1..Len(loans')
        BY <1>1
    <2>2. PlansOf(loans')[id] = PlanOf(loans'[id])
        BY <1>1, <2>1, PlansAreASequence
    <2> QED BY <1>1, <2>2
<1>4. PlanOf(l).paid = l.totalRepaid
    BY DEF PlanOf
<1>5. PlansOf(loans') =
        [PlansOf(loans) EXCEPT ![id].paid = l.totalRepaid, ![id].state = PlanOf(l).state]
    <2>1. PlansOf(loans') = Rewritten(PlansOf(loans), id, l.totalRepaid, PlanOf(l).state)
        BY <1>1, PlansAfterChange
    <2> QED BY <2>1 DEF Rewritten
<1> QED
    BY <1>1, <1>2, <1>3, <1>4, <1>5, PlansAre

LEMMA PayIsAPay ==
    ASSUME IInv, NEW id \in LoanIds, NEW asked \in RepayAmounts, Repay(id, asked)
    PROVE  id \in 1..Len(Plans) /\ Promise!Pay(id)
<1> DEFINE old    == loans[id]
           amount == IF asked > Remaining(old) THEN Remaining(old) ELSE asked
<1>0. loans \in Seq(SoundLoan)
    BY DEF IInv
<1>1. amount # 0 /\ now' = now
    BY DEF Repay
<1>2. /\ old \in SoundLoan /\ amount \in Nat /\ old.status = "Active"
      /\ amount <= Remaining(old)
    BY RepayMoves
<1>3. PICK l \in SoundLoan :
        /\ loans' = [loans EXCEPT ![id] = l]
        /\ l.totalOwed = old.totalOwed /\ l.installmentCount = old.installmentCount
        /\ l.startedAt = old.startedAt /\ l.interval = old.interval
        /\ l.totalRepaid = old.totalRepaid + amount
        /\ l.status # "Liquidated"
        /\ l.status = "Repaid" <=> l.totalRepaid = l.totalOwed
    BY RepayMoves
<1> HIDE DEF amount
<1>4. /\ id \in 1..Len(Plans) /\ Plans[id] = PlanOf(old) /\ Plans'[id].paid = l.totalRepaid
      /\ Plans' = [Plans EXCEPT ![id].paid = l.totalRepaid, ![id].state = PlanOf(l).state]
    BY <1>0, <1>3, ChangeIsAChange
<1>5. /\ PlanOf(old).state = "open" /\ PlanOf(old).paid = old.totalRepaid
      /\ PlanOf(old).owed = old.totalOwed
    BY <1>2 DEF PlanOf
<1>6. PlanOf(l).state = IF l.totalRepaid = old.totalOwed THEN "settled" ELSE "open"
    <2>1. l.status \in {"Active", "Repaid", "Liquidated"}
        BY LoanFields
    <2> QED BY <1>3, <2>1 DEF PlanOf
<1>7. old.totalRepaid < l.totalRepaid /\ l.totalRepaid <= old.totalOwed
    <2>1. /\ old.totalRepaid \in Nat /\ l.totalRepaid \in Nat /\ l.totalOwed \in Nat
          /\ l.totalRepaid <= l.totalOwed
        BY <1>2, LoanFields
    <2> HIDE DEF old
    <2> QED BY <1>1, <1>2, <1>3, <2>1
<1> HIDE DEF old
<1> QED
    BY <1>1, <1>4, <1>5, <1>6, <1>7 DEF Promise!Pay

LEMMA DefaultIsADefault ==
    ASSUME IInv, InstallmentsMatchMoney, NEW id \in LoanIds, Liquidate(id)
    PROVE  id \in 1..Len(Plans) /\ Promise!Default(id)
<1> DEFINE old == loans[id]
           k   == old.installmentsPaid + 1
<1>0. loans \in Seq(SoundLoan) /\ Matches(old)
    BY DEF IInv, InstallmentsMatchMoney, Matches
<1>1. /\ old.status = "Active" /\ old.installmentsPaid < old.installmentCount
      /\ now > old.startedAt + k * old.interval + GracePeriod /\ now' = now
    BY DEF Liquidate, CheckLiquidatable, Overdue, InstallmentDueAt
<1>2. PICK l \in SoundLoan :
        /\ loans' = [loans EXCEPT ![id] = l] /\ l.status = "Liquidated"
        /\ l.totalOwed = old.totalOwed /\ l.installmentCount = old.installmentCount
        /\ l.startedAt = old.startedAt /\ l.interval = old.interval
        /\ l.totalRepaid >= old.totalRepaid
    BY LiquidateWrites
<1>3. /\ id \in 1..Len(Plans) /\ Plans[id] = PlanOf(old) /\ Plans'[id].paid = l.totalRepaid
      /\ Plans' = [Plans EXCEPT ![id].paid = l.totalRepaid, ![id].state = PlanOf(l).state]
      /\ old \in SoundLoan
    BY <1>0, <1>2, ChangeIsAChange
<1> HIDE DEF old
<1>4. /\ PlanOf(old).state = "open" /\ PlanOf(old).paid = old.totalRepaid
      /\ PlanOf(old).owed = old.totalOwed /\ PlanOf(old).count = old.installmentCount
      /\ PlanOf(old).opened = old.startedAt /\ PlanOf(old).every = old.interval
    BY <1>1 DEF PlanOf
<1>5. PlanOf(l).state = "defaulted"
    BY <1>2 DEF PlanOf
<1>6. k \in 1..old.installmentCount
    <2>1. old.installmentsPaid \in Nat /\ old.installmentCount \in Nat
        BY <1>3, LoanFields
    <2> QED BY <1>1, <2>1
<1>7. old.totalRepaid < ThresholdFor(old, k)
    BY <1>0, <1>1 DEF Matches
<1>8. old.totalRepaid * old.installmentCount < k * old.totalOwed
    BY <1>3, <1>6, <1>7, ThresholdIsAFraction
<1> HIDE DEF k
<1>9. Promise!Behind(PlanOf(old))
    BY <1>1, <1>4, <1>6, <1>8 DEF Promise!Behind
<1>10. old.totalRepaid <= l.totalRepaid /\ l.totalRepaid <= old.totalOwed
    <2>1. old.totalRepaid \in Nat /\ l.totalRepaid \in Nat /\ l.totalRepaid <= l.totalOwed
        BY <1>3, LoanFields
    <2> QED BY <1>2, <2>1
<1> QED
    BY <1>1, <1>3, <1>4, <1>5, <1>9, <1>10 DEF Promise!Default

LEMMA OthersOnlyElapse ==
    ASSUME IInv, [Next]_vars, ~Opens, ~Repays, ~Liquidates
    PROVE  Promise!Elapse \/ UNCHANGED <<now, Plans>>
<1>1. Plans' = Plans
    <2>1. loans' = loans
        BY OthersLeaveTheBook
    <2> QED BY <2>1, PlansAre
<1>2. now' = now + 1 \/ now' = now
    BY DEF Next, vars, Opens, Repays, Liquidates, Tick, Fund, WithdrawLiquidity, SweepFees
<1> QED
    BY <1>1, <1>2 DEF Promise!Elapse

(* The credit line keeps the promise of an instalment plan, for every      *)
(* schedule, rate of payment and order of operations: the rounded ladder   *)
(* and the cached counter (PolarisLoanEngine.sol, thresholdFor, repay and  *)
(* checkLiquidatable) refine plain fractions of the debt, so that no       *)
(* borrower who is not really behind can be liquidated.                    *)
THEOREM EngineKeepsInstalmentPromise == Spec => KeepsInstalmentPromise
<1>1. Init => Promise!Init
    <2>1. Init => loans = <<>> /\ now = 0
        BY DEF Init
    <2>2. loans = <<>> => Plans = <<>>
        BY DEF Plans, LoanIds
    <2> QED BY <2>1, <2>2 DEF Promise!Init
<1>2. IInv /\ InstallmentsMatchMoney /\ [Next]_vars => [Promise!Next]_(Promise!vars)
    <2> SUFFICES ASSUME IInv, InstallmentsMatchMoney, [Next]_vars
                 PROVE  Promise!Next \/ UNCHANGED <<now, Plans>>
        BY DEF Promise!vars
    <2>1. CASE Opens
        BY <2>1, OpenIsAnOpen DEF Opens, Promise!Next
    <2>2. CASE Repays
        <3>1. PICK id \in LoanIds, asked \in RepayAmounts : Repay(id, asked)
            BY <2>2 DEF Repays
        <3>2. id \in 1..Len(Plans) /\ Promise!Pay(id)
            BY <3>1, PayIsAPay
        <3> QED BY <3>2 DEF Promise!Next
    <2>3. CASE Liquidates
        <3>1. PICK id \in LoanIds : Liquidate(id)
            BY <2>3 DEF Liquidates
        <3>2. id \in 1..Len(Plans) /\ Promise!Default(id)
            BY <3>1, DefaultIsADefault
        <3> QED BY <3>2 DEF Promise!Next
    <2>4. CASE ~Opens /\ ~Repays /\ ~Liquidates
        BY <2>4, OthersOnlyElapse DEF Promise!Next
    <2> QED BY <2>1, <2>2, <2>3, <2>4
<1> QED
    BY <1>1, <1>2, LineInvariant, InstallmentsAlwaysMatchMoney, PTL
       DEF Spec, KeepsInstalmentPromise, Promise!Spec

-----------------------------------------------------------------------------
(* The way to clear a default.  What ENABLED says of liquidate is said     *)
(* here without it: the successor is written down as a function of the     *)
(* state, it is of the right type (no subtraction of the three contracts   *)
(* runs below zero), and the step to it is a step of the action.           *)

DefaultVars ==
    <<loans, activeDebtOf, allowance, lockedOf, seizedOf, totalLocked, usdc, badDebt, profile>>
DefaultFrame ==
    <<now, protocolFeesAccrued, engineParams, historyVars, vaultParams, scoreParams, merchants>>
DefaultStates ==
    Seq(Loan) \X [Accounts -> Nat] \X [Spenders -> [Accounts -> Nat]] \X [Accounts -> Nat]
        \X [Accounts -> Nat] \X Nat \X Ledgers \X Nat \X [Accounts -> Profile]

Drawn(id) == Recoverable(loans[id].borrower, Remaining(loans[id]))
Taken(id) == FromVault(loans[id].borrower, Remaining(loans[id]) - Drawn(id))

AfterDefault(id) ==
    LET l == loans[id]
        b == l.borrower
    IN  <<[loans EXCEPT ![id].status = "Liquidated",
                        ![id].totalRepaid = @ + Drawn(id) + Taken(id)],
          [activeDebtOf EXCEPT ![b] = @ - Remaining(l)],
          Spent(Contract, b, Drawn(id)),
          [lockedOf EXCEPT ![b] = @ - Taken(id)],
          [seizedOf EXCEPT ![b] = @ + Taken(id)],
          totalLocked - Taken(id),
          Moved(Moved(usdc, b, Contract, Drawn(id)), Vault, Contract, Taken(id)),
          badDebt + (Remaining(l) - Drawn(id) - Taken(id)),
          [profile EXCEPT ![b].score = Adjusted(@, DefaultPenalty), ![b].liquidations = @ + 1]>>

(* checkLiquidatable never says yes to a call that must revert: whatever   *)
(* the borrower did with money, allowance and collateral, with the engine  *)
(* wired to score and vault the default can be cleared.  That the vault    *)
(* can pay what is taken, and that the debt comes off a line that has it,  *)
(* are the books of every other loan and depositor being exact.            *)
THEOREM DefaultCanBeCleared ==
    ASSUME IInv, NEW id \in LoanIds, CheckLiquidatable(id), engineWrites, engineSeizes
    PROVE  /\ AfterDefault(id) \in DefaultStates
           /\ DefaultVars' = AfterDefault(id) /\ UNCHANGED DefaultFrame => Liquidate(id)
<1> DEFINE l    == loans[id]
           b    == l.borrower
           owed == Remaining(l)
           take == Drawn(id)
           got  == Taken(id)
           d1 == [loans EXCEPT ![id].status = "Liquidated", ![id].totalRepaid = @ + take + got]
           d2 == [activeDebtOf EXCEPT ![b] = @ - owed]
           d3 == Spent(Contract, b, take)
           d4 == [lockedOf EXCEPT ![b] = @ - got]
           d5 == [seizedOf EXCEPT ![b] = @ + got]
           d7 == Moved(Moved(usdc, b, Contract, take), Vault, Contract, got)
           d9 == [profile EXCEPT ![b].score = Adjusted(@, DefaultPenalty), ![b].liquidations = @ + 1]
<1>1. TypedState /\ id \in 1..Len(loans)
    BY Facts DEF LoanIds
<1>2. l \in SoundLoan /\ b \in Accounts /\ owed \in Nat /\ l.status = "Active"
    <2>1. l \in SoundLoan
        BY <1>1 DEF TypedState
    <2> QED BY <2>1, LoanFields DEF CheckLiquidatable
<1>3. take = Recoverable(b, owed) /\ got = FromVault(b, owed - take)
    BY DEF Drawn, Taken
<1>4. owed <= activeDebtOf[b] /\ activeDebtOf[b] \in Nat
    <2>1. owed <= SumTo(ActiveDebt(loans, b), Len(loans))
        BY <1>1, <1>2, ActiveIsCounted DEF TypedState
    <2>2. activeDebtOf[b] = SumTo(ActiveDebt(loans, b), Len(loans))
        BY <1>2 DEF IInv, DebtsAreExact
    <2>3. activeDebtOf[b] \in Nat
        BY <1>1, <1>2 DEF TypedState
    <2> QED BY <2>1, <2>2, <2>3
<1> HIDE DEF owed
<1>5. /\ take \in Nat /\ take <= usdc[b] /\ take <= allowance[Contract][b]
      /\ got \in Nat /\ got <= lockedOf[b] /\ take + got <= owed
    BY <1>1, <1>2, <1>3, DrawnUpTo DEF TypedState
<1> HIDE DEF take, got
<1>6. d1 \in Seq(Loan)
    <2> DEFINE new == [l EXCEPT !.status = "Liquidated", !.totalRepaid = @ + take + got]
    <2>1. l \in Loan /\ l.totalRepaid \in Nat /\ l.totalRepaid + take + got \in Nat
        BY <1>2, <1>5, LoanFields DEF SoundLoan
    <2>2. new \in Loan
        BY <2>1 DEF Loan
    <2>3. loans \in Seq(Loan)
        BY <1>1, SoundLoansAreLoans DEF TypedState
    <2>4. d1 = [loans EXCEPT ![id] = new]
        BY <1>1, <2>1, <2>3 DEF Loan
    <2> HIDE DEF new, d1
    <2> QED BY <1>1, <2>2, <2>3, <2>4
<1>7. d2 \in [Accounts -> Nat]
    <2>1. activeDebtOf \in [Accounts -> Nat] /\ activeDebtOf[b] - owed \in Nat
        BY <1>1, <1>2, <1>4 DEF TypedState
    <2> HIDE DEF l
    <2> QED BY <1>2, <2>1
<1>8. d3 \in [Spenders -> [Accounts -> Nat]]
    BY <1>1, <1>2, <1>5, WalletsAre, SpentIsTyped DEF TypedState
<1>9. /\ d4 \in [Accounts -> Nat] /\ d5 \in [Accounts -> Nat]
      /\ got <= totalLocked /\ totalLocked - got \in Nat
    <2>1. /\ lockedOf \in [Accounts -> Nat] /\ seizedOf \in [Accounts -> Nat]
          /\ totalLocked \in Nat /\ totalLocked = SumTo(lockedOf, NumAccounts)
        BY <1>1 DEF TypedState
    <2>2. lockedOf[b] \in Nat /\ seizedOf[b] \in Nat
        BY <1>2, <2>1
    <2>3. lockedOf[b] - got \in Nat /\ seizedOf[b] + got \in Nat
        BY <1>5, <2>2
    <2>4. lockedOf[b] <= SumTo(lockedOf, NumAccounts)
        BY <1>2, <2>1, <2>2, LockedUpdate
    <2> HIDE DEF l
    <2>5. d4 \in [Accounts -> Nat] /\ d5 \in [Accounts -> Nat]
        BY <1>2, <2>1, <2>3
    <2>6. got <= totalLocked /\ totalLocked - got \in Nat
        BY <1>5, <2>1, <2>2, <2>4
    <2> QED BY <2>5, <2>6
<1>10. d7 \in Ledgers
    <2>1. /\ usdc \in Ledgers /\ usdc[Vault] = totalLocked
          /\ b # Contract /\ b # Vault /\ b \in Wallets
        BY <1>1, <1>2, WalletsAre DEF TypedState
    <2> DEFINE paidIn == Moved(usdc, b, Contract, take)
    <2>2. paidIn \in Ledgers /\ paidIn[Vault] = usdc[Vault]
        BY <1>5, <2>1, WalletsAre, MoveEffect
    <2> HIDE DEF paidIn
    <2>3. Moved(paidIn, Vault, Contract, got) \in Ledgers
        BY <1>5, <1>9, <2>1, <2>2, WalletsAre, MoveEffect
    <2> QED BY <2>3 DEF paidIn
<1>11. badDebt + (owed - take - got) \in Nat
    <2>1. badDebt \in Nat
        BY <1>1 DEF TypedState
    <2> QED BY <1>2, <1>5, <2>1
<1>12. d9 \in [Accounts -> Profile]
    <2>1. profile \in [Accounts -> Profile] /\ profile[b] \in Profile
        BY <1>1, <1>2 DEF TypedState
    <2>2. /\ Adjusted(profile[b].score, DefaultPenalty) \in MinScore..MaxScore
          /\ profile[b].liquidations + 1 \in Nat
        <3>1. \A sc \in MinScore..MaxScore, d \in Int : Adjusted(sc, d) \in MinScore..MaxScore
            BY DEF Adjusted, MinScore, MaxScore
        <3>2. DefaultPenalty \in Int
            BY DEF DefaultPenalty
        <3>3. profile[b].score \in MinScore..MaxScore /\ profile[b].liquidations + 1 \in Nat
            BY <2>1 DEF Profile
        <3> QED BY <3>1, <3>2, <3>3
    <2> HIDE DEF l
    <2> QED BY <1>2, <2>1, <2>2 DEF Profile
<1>13. AfterDefault(id) = <<d1, d2, d3, d4, d5, totalLocked - got, d7,
                            badDebt + (owed - take - got), d9>>
    BY DEF AfterDefault, owed, take, got
<1>14. AfterDefault(id) \in DefaultStates
    <2> HIDE DEF d1, d2, d3, d4, d5, d7, d9, l
    <2> QED BY <1>6, <1>7, <1>8, <1>9, <1>10, <1>11, <1>12, <1>13 DEF DefaultStates
<1>15. ASSUME DefaultVars' = AfterDefault(id), UNCHANGED DefaultFrame
       PROVE  Liquidate(id)
    <2>1. /\ loans' = d1 /\ activeDebtOf' = d2 /\ allowance' = d3
          /\ lockedOf' = d4 /\ seizedOf' = d5 /\ totalLocked' = totalLocked - got
          /\ usdc' = d7 /\ badDebt' = badDebt + (owed - take - got) /\ profile' = d9
        <3> HIDE DEF d1, d2, d3, d4, d5, d7, d9, l
        <3> QED BY <1>13, <1>15 DEF DefaultVars
    <2>2. UNCHANGED <<now, protocolFeesAccrued, engineParams, historyVars,
                      vaultParams, scoreParams, merchants>>
        BY <1>15 DEF DefaultFrame
    <2>3. Pullable(Contract, b, take)
        BY <1>5 DEF Pullable
    <2>4. RecordLiquidation(b)
        BY <2>1 DEF RecordLiquidation
    <2>5. Seize(b, got)
        BY <2>1 DEF Seize
    <2>6. activeDebtOf' = DebtCleared(b, owed)
        BY <2>1 DEF DebtCleared
    <2>7. vaultSet /\ take < owed => engineSeizes
        OBVIOUS
    <2> HIDE DEF d2, d3, d4, d5, d9
    <2> QED BY <1>3, <2>1, <2>2, <2>3, <2>4, <2>5, <2>6, <2>7, ZenonT(60)
            DEF Liquidate, owed, d1, d3, d7
<1> QED
    BY <1>14, <1>15

=============================================================================
